---- MODULE Spec2Model ----
(***************************************************************************)
(* EMA-API-Handling: the retrying request executors around the m-Path API, *)
(* the JWT redaction of the request trace, the flatteners of the           *)
(* interaction tree and of the answer sets, the timestamp localization,    *)
(* and the schedule builders (build_entries, _clean, merge_and_push,       *)
(* combine_entries), as state machines translated from the Python sources. *)
(***************************************************************************)
EXTENDS Integers, Sequences, FiniteSets, TLC

VARIABLES
    pc,         \* "idle" | "run" | "done": position of the executor call
    exec,       \* the executor being run
    budget,     \* the local variable retries / max_retries of the call
    attempt,    \* loop variable `attempt` (1-based)
    variant,    \* set_interactions: which POST encoding is tried next (1..3)
    requests,   \* HTTP requests sent by this call
    discarded,  \* set_interactions: replies dropped by the encoding fallback
    sleepLog,   \* the durations of the time.sleep calls, in order
    backoff,    \* _fetch_interactions: local variable `backoff`
    mints,      \* tokens minted (jwt.encode calls); token ids are 1..mints
    tokens,     \* the token id sent in each logical attempt, in order
    replies,    \* the reply each logical attempt ended with, in order
    outcome,    \* how the call ended
    mp,         \* merge_and_push: "none" | "fetch" | "push"
    userCode,   \* get_clients: the user_code argument, as characters
    jwtA,       \* a token make_jwt returned
    jwtB,       \* another token, sent in an otherwise equal request
    changedAfter, \* the changedAfterUTC parameter, <<>> when omitted
    shown,      \* which _call_raw printed the trace: "none" | "package" | "script"
    traceA,     \* the URL printed for the request carrying jwtA
    traceB,     \* the URL printed for the request carrying jwtB
    tree,       \* a root of the interactions reply
    treeSize,   \* number of nodes of tree
    flattened,  \* whether _questions_df has run on tree
    rows,       \* the rows _walk collected
    treeError,  \* the exception _questions_df raised, "none" when it returned
    ans,        \* _flatten_answer: the answer block
    ansPrefix,  \* the prefix it is flattened under
    ansRec,     \* the record it writes into
    ansDone,    \* whether _flatten_answer has returned
    entry,      \* flatten_rows: one raw response record
    row,        \* the flat row built for it
    rowDone,    \* whether the row is finished
    table0,     \* the table as flattened, before any localization
    table,      \* the table: column name -> cells, one per row
    passes,     \* how many times the localization step ran on table
    localizedBy, \* the function whose step ran: "none" or its name
    remoteRec,  \* _clean: a record of the fetched schedule
    cleaned,    \* the record _clean returned, <<>> before the call
    cleanDone,  \* whether _clean has returned
    remote,     \* merge_and_push: the schedule _fetch_schedule returned
    newEntries, \* the new_entries argument
    payload,    \* the entries handed to _push_schedule
    merged,     \* whether the entries were handed over
    buildArgs,  \* build_entries: the arguments of the call
    buildPc,    \* "start" | "loop" | "returned" | "raised"
    buildLabels, \* the local list labels after padding
    buildIdx,   \* position of the loop over zip(starts, ends, labels), from 1
    buildNew,   \* the local list new
    buildResult, \* the list returned to the caller
    buildError, \* the exception raised, NoError while there is none
    ORDER,      \* schedule_json_builder: the module global ORDER
    TIME_KEYS,  \* the module global TIME_KEYS
    calls,      \* combine_entries: the arguments of each caller's call
    callPc,     \* each caller's position in its call
    callIdx,    \* the index idx of the entry being converted, from 0
    callFrame,  \* the frame of _to_api_dict: keys left to visit and od so far
    callOut,    \* the entries converted so far (future_entries + new_entries)
    callResult, \* the list returned to each caller
    callError,  \* the exception each call raised, "none" while there is none
    fetched     \* merge_and_push: the replies to its getSchedule request

execVars == <<pc, exec, budget, attempt, variant, requests, discarded, sleepLog,
              backoff, mints, tokens, replies, outcome, mp>>

urlVars == <<userCode, jwtA, jwtB, changedAfter, shown, traceA, traceB>>

treeVars == <<tree, treeSize, flattened, rows, treeError>>

answerVars == <<ans, ansPrefix, ansRec, ansDone>>

rowVars == <<entry, row, rowDone>>

tableVars == <<table0, table, passes, localizedBy>>

cleanVars == <<remoteRec, cleaned, cleanDone>>

mergeVars == <<remote, newEntries, payload, merged>>

buildVars == <<buildArgs, buildPc, buildLabels, buildIdx, buildNew, buildResult, buildError>>

combineVars == <<ORDER, TIME_KEYS, calls, callPc, callIdx, callFrame, callOut, callResult, callError>>

fetchVars == <<fetched>>

\* what the actions of one component leave unchanged
exceptExec == <<urlVars, treeVars, answerVars, rowVars, tableVars, cleanVars, mergeVars, buildVars, combineVars, fetchVars>>

exceptUrl == <<execVars, treeVars, answerVars, rowVars, tableVars, cleanVars, mergeVars, buildVars, combineVars, fetchVars>>

exceptTree == <<execVars, urlVars, answerVars, rowVars, tableVars, cleanVars, mergeVars, buildVars, combineVars, fetchVars>>

exceptAnswer == <<execVars, urlVars, treeVars, rowVars, tableVars, cleanVars, mergeVars, buildVars, combineVars, fetchVars>>

exceptRow == <<execVars, urlVars, treeVars, answerVars, tableVars, cleanVars, mergeVars, buildVars, combineVars, fetchVars>>

exceptTable == <<execVars, urlVars, treeVars, answerVars, rowVars, cleanVars, mergeVars, buildVars, combineVars, fetchVars>>

exceptClean == <<execVars, urlVars, treeVars, answerVars, rowVars, tableVars, mergeVars, buildVars, combineVars, fetchVars>>

exceptMerge == <<execVars, urlVars, treeVars, answerVars, rowVars, tableVars, cleanVars, buildVars, combineVars, fetchVars>>

exceptBuild == <<execVars, urlVars, treeVars, answerVars, rowVars, tableVars, cleanVars, mergeVars, combineVars, fetchVars>>

exceptCombine == <<execVars, urlVars, treeVars, answerVars, rowVars, tableVars, cleanVars, mergeVars, buildVars, fetchVars>>

exceptFetch == <<execVars, urlVars, treeVars, answerVars, rowVars, tableVars, cleanVars, mergeVars, buildVars, combineVars>>

vars == <<execVars, urlVars, treeVars, answerVars, rowVars, tableVars, cleanVars, mergeVars, buildVars, combineVars, fetchVars>>

----------------------------------------------------------------------------
(* Bounds and program constants *)

MaxBudget == 3

DefaultRetries == 3

FixedDelay == 5

BackoffSeconds == 5

InitialBackoff == 3

BackoffCap == 60

PushDelayFactor == 2

Budgets == -1 .. MaxBudget

----------------------------------------------------------------------------
(* What the transport hands back for one HTTP request *)

HttpCodes == {200, 400, 500}

Statuses == {-1, 0, 1, 2}

NetErr == [kind |-> "neterr", http |-> 0, status |-> 0]

Replies ==
    {NetErr}
    \cup {[kind |-> "nonjson", http |-> h, status |-> 0] : h \in HttpCodes}
    \cup {[kind |-> "json", http |-> h, status |-> s] : h \in HttpCodes, s \in Statuses}

----------------------------------------------------------------------------
(* What one loop iteration decides *)

Return == [act |-> "return", exc |-> "none", msg |-> "none",
           body |-> TRUE, names |-> FALSE, sleep |-> 0]

ReturnNone == [act |-> "none", exc |-> "none", msg |-> "none",
               body |-> FALSE, names |-> FALSE, sleep |-> 0]

Retry(s) == [act |-> "retry", exc |-> "none", msg |-> "none",
             body |-> FALSE, names |-> FALSE, sleep |-> s]

\* body: the exception message holds the full reply body;
\* names: the exception message names the status the server sent.
Raise(exc, msg, body, names) == [act |-> "raise", exc |-> exc, msg |-> msg,
                                 body |-> body, names |-> names, sleep |-> 0]

Pending == [kind |-> "pending", exc |-> "none", msg |-> "none",
            body |-> FALSE, names |-> FALSE]

OutcomeOf(d) == [kind |-> d.act, exc |-> d.exc, msg |-> d.msg,
                 body |-> d.body, names |-> d.names]

Min(a, b) == IF a < b THEN a ELSE b

----------------------------------------------------------------------------
(* The reply handling of each executor: r is the transport's answer to the  *)
(* request of attempt a, N the attempt budget.                               *)

\* get_data_reply with the retry test off by one (attempt < max_retries - 1).
get_data_reply_offByOne(r, a, N) ==
    IF r.kind = "neterr" THEN Raise("RequestException", "transport", FALSE, FALSE)
    ELSE IF r.http # 200 THEN Raise("HTTPError", "raise_for_status", FALSE, FALSE)
    ELSE IF r.kind = "nonjson" THEN Raise("JSONDecodeError", "resp.json", FALSE, FALSE)
    ELSE IF r.status = 1 THEN Return
    ELSE IF r.status = -1
         THEN IF a < N - 1 THEN Retry(FixedDelay)
              ELSE Raise("RuntimeError", "API gave status -1 after max retries", FALSE, TRUE)
    ELSE Raise("TypeError", "json.dumps positional argument", FALSE, FALSE)

\* get_data with _call_raw: raise_for_status, resp.json(), then the status.
get_data_reply(r, a, N) ==
    IF r.kind = "neterr" THEN Raise("RequestException", "transport", FALSE, FALSE)
    ELSE IF r.http # 200 THEN Raise("HTTPError", "raise_for_status", FALSE, FALSE)
    ELSE IF r.kind = "nonjson" THEN Raise("JSONDecodeError", "resp.json", FALSE, FALSE)
    ELSE IF r.status = 1 THEN Return
    ELSE IF r.status = -1
         THEN IF a < N THEN Retry(FixedDelay)
              ELSE Raise("RuntimeError", "API gave status -1 after max retries", FALSE, TRUE)
    \* json.dumps(body, 2): a second positional argument is a TypeError
    ELSE Raise("TypeError", "json.dumps positional argument", FALSE, FALSE)

\* get_clients / get_client_ids_and_aliases with _call_raw.
get_clients_reply(r, a, N) ==
    IF r.kind = "neterr" THEN Raise("RequestException", "transport", FALSE, FALSE)
    ELSE IF r.http # 200 THEN Raise("HTTPError", "raise_for_status", FALSE, FALSE)
    ELSE IF r.kind = "nonjson" THEN Raise("JSONDecodeError", "resp.json", FALSE, FALSE)
    ELSE IF r.status = 1 THEN Return
    ELSE IF r.status = -1
         THEN IF a < N THEN Retry(FixedDelay)
              ELSE Raise("RuntimeError", "API gave status -1 after max retries", FALSE, TRUE)
    ELSE Raise("RuntimeError", "Unexpected API status", TRUE, TRUE)

\* get_schedule._fetch_schedule (and the script get_interactions._fetch_interactions):
\* requests.get(...).json() without raise_for_status.
_fetch_schedule_reply(r, a, N) ==
    IF r.kind = "neterr" THEN Raise("RequestException", "transport", FALSE, FALSE)
    ELSE IF r.kind = "nonjson" THEN Raise("JSONDecodeError", "resp.json", FALSE, FALSE)
    ELSE IF r.status = 1 THEN Return
    ELSE IF r.status = -1 /\ a < N THEN Retry(FixedDelay)
    \* json.dumps(body, 2): a second positional argument is a TypeError
    ELSE Raise("TypeError", "json.dumps positional argument", FALSE, FALSE)

\* _fetch_interactions_reply with a non-JSON body handled like a network error.
_fetch_interactions_reply_nonJsonRetried(r, a, N, b) ==
    IF r.kind = "neterr" \/ r.kind = "nonjson"
    THEN IF a = N THEN Raise("RuntimeError", "Network error after attempts", FALSE, FALSE)
         ELSE Retry(b)
    ELSE IF r.status = 1 THEN Return
    ELSE IF r.status = -1
         THEN IF a < N THEN Retry(b)
              ELSE Raise("RuntimeError", "API kept returning status -1", FALSE, TRUE)
    ELSE Raise("RuntimeError", "Unexpected API status", TRUE, TRUE)

\* a _fetch_interactions that sleeps the initial delay after every network error
_fetch_interactions_reply_fixedNetDelay(r, a, N, b) ==
    IF r.kind = "neterr"
    THEN IF a = N THEN Raise("RuntimeError", "Network error after attempts", FALSE, FALSE)
         ELSE Retry(InitialBackoff)
    ELSE IF r.kind = "nonjson" THEN Raise("RuntimeError", "API error (non-JSON response)", FALSE, FALSE)
    ELSE IF r.status = 1 THEN Return
    ELSE IF r.status = -1
         THEN IF a < N THEN Retry(b)
              ELSE Raise("RuntimeError", "API kept returning status -1", FALSE, TRUE)
    ELSE Raise("RuntimeError", "Unexpected API status", TRUE, TRUE)

\* ema_api_handling.get_interactions._fetch_interactions; b is `backoff`.
_fetch_interactions_reply(r, a, N, b) ==
    IF r.kind = "neterr"
    THEN IF a = N THEN Raise("RuntimeError", "Network error after attempts", FALSE, FALSE)
         ELSE Retry(b)
    ELSE IF r.kind = "nonjson" THEN Raise("RuntimeError", "API error (non-JSON response)", FALSE, FALSE)
    ELSE IF r.status = 1 THEN Return
    ELSE IF r.status = -1
         THEN IF a < N THEN Retry(b)
              ELSE Raise("RuntimeError", "API kept returning status -1", FALSE, TRUE)
    ELSE Raise("RuntimeError", "Unexpected API status", TRUE, TRUE)

\* a fetch that hands back the schedule of every JSON reply
merge_fetch_reply_anyStatus(r) ==
    IF r.kind = "neterr" THEN Raise("RequestException", "transport", FALSE, FALSE)
    ELSE IF r.kind = "nonjson" THEN Raise("JSONDecodeError", "resp.json", FALSE, FALSE)
    ELSE Return

\* merge_and_push_schedule._fetch_schedule: one request, no loop.
merge_fetch_reply(r) ==
    IF r.kind = "neterr" THEN Raise("RequestException", "transport", FALSE, FALSE)
    ELSE IF r.kind = "nonjson" THEN Raise("JSONDecodeError", "resp.json", FALSE, FALSE)
    ELSE IF r.status # 1 THEN Raise("RuntimeError", "getSchedule failed", TRUE, TRUE)
    ELSE Return

\* merge_and_push_schedule._push_schedule.
_push_schedule_reply(r, a, N) ==
    IF r.kind = "neterr" THEN Raise("RequestException", "transport", FALSE, FALSE)
    ELSE IF r.http # 200 THEN Raise("HTTPError", "raise_for_status", FALSE, FALSE)
    ELSE IF r.kind = "nonjson" THEN Raise("JSONDecodeError", "r.json", FALSE, FALSE)
    ELSE IF r.status # -1
         THEN IF r.status # 1 THEN Raise("RuntimeError", "setSchedule rejected", TRUE, TRUE)
              ELSE Return
    ELSE IF a = N THEN Raise("RuntimeError", "setSchedule kept returning status -1", FALSE, TRUE)
    ELSE Retry(PushDelayFactor * a)

\* set_schedule_from_json.set_schedule.
set_schedule_reply(r, a, N) ==
    IF r.kind = "neterr" THEN Raise("RequestException", "transport", FALSE, FALSE)
    ELSE IF r.http # 200 THEN Raise("HTTPError", "raise_for_status", FALSE, FALSE)
    ELSE IF r.kind = "nonjson" THEN Raise("RuntimeError", "Server returned non-JSON", FALSE, FALSE)
    ELSE IF r.status # -1 THEN Return
    ELSE IF a = N THEN Raise("RuntimeError", "Server returned status -1 repeatedly", FALSE, TRUE)
    ELSE Retry(PushDelayFactor * a)

\* ema_api_handling.set_interactions_from_json._try_post_variants: what the
\* POST of encoding v does with the transport's answer r.
_try_post_variants(v, r) ==
    IF v < 3
    THEN IF r.kind = "neterr" \/ r.http = 400 THEN "next" ELSE "resp"
    ELSE IF r.kind = "neterr" THEN "error" ELSE "resp"

\* set_interactions with _post_set_interactions, for the response r that
\* _try_post_variants returned.
set_interactions_reply(r, a, N) ==
    \* resp.raise_for_status() inside the try: caught as RequestException
    IF r.http # 200
    THEN IF a < N THEN Retry(BackoffSeconds)
         ELSE Raise("HTTPError", "raise_for_status", FALSE, FALSE)
    \* RuntimeError is not caught by the except clause
    ELSE IF r.kind = "nonjson" THEN Raise("RuntimeError", "Non-JSON response", FALSE, FALSE)
    ELSE IF r.status = 1 THEN Return
    ELSE IF r.status = -1 /\ a < N THEN Retry(BackoffSeconds)
    ELSE Raise("RuntimeError", "API rejected the payload", TRUE, TRUE)

\* The script set_interactions_from_json.set_interactions: one request.
legacy_set_interactions_reply(r) ==
    IF r.kind = "neterr" THEN Raise("RequestException", "transport", FALSE, FALSE)
    ELSE IF r.http # 200 THEN Raise("HTTPError", "raise_for_status", FALSE, FALSE)
    \* prints the raw text and returns
    ELSE IF r.kind = "nonjson" THEN ReturnNone
    ELSE IF r.status # 1 THEN Raise("RuntimeError", "API rejected the payload.", FALSE, FALSE)
    ELSE Return


----------------------------------------------------------------------------
(* The parts of the state a run of one component leaves alone *)

ExecIdle ==
    /\ pc = "idle" /\ exec = "none" /\ budget = 0 /\ attempt = 1 /\ variant = 1
    /\ requests = 0 /\ discarded = 0 /\ sleepLog = <<>> /\ backoff = InitialBackoff
    /\ mints = 0 /\ tokens = <<>> /\ replies = <<>> /\ outcome = Pending /\ mp = "none"

UrlIdle ==
    /\ userCode = <<>> /\ jwtA = <<>> /\ jwtB = <<>> /\ changedAfter = <<>>
    /\ shown = "none" /\ traceA = <<>> /\ traceB = <<>>

TreeIdle ==
    /\ tree = <<>> /\ treeSize = 0 /\ flattened = FALSE /\ rows = <<>>
    /\ treeError = "none"

AnswerIdle ==
    /\ ans = <<>> /\ ansPrefix = <<>> /\ ansRec = <<>> /\ ansDone = FALSE

RowIdle ==
    /\ entry = <<>> /\ row = <<>> /\ rowDone = FALSE

TableIdle ==
    /\ table0 = <<>> /\ table = <<>> /\ passes = 0 /\ localizedBy = "none"

CleanIdle ==
    /\ remoteRec = <<>> /\ cleaned = <<>> /\ cleanDone = FALSE

MergeIdle ==
    /\ remote = <<>> /\ newEntries = <<>> /\ payload = <<>> /\ merged = FALSE

BuildIdle ==
    /\ buildArgs = <<>> /\ buildPc = "idle" /\ buildLabels = <<>> /\ buildIdx = 0
    /\ buildNew = <<>> /\ buildResult = <<>> /\ buildError = <<>>

CombineIdle ==
    /\ ORDER = <<>> /\ TIME_KEYS = {} /\ calls = <<>> /\ callPc = <<>> /\ callIdx = <<>>
    /\ callFrame = <<>> /\ callOut = <<>> /\ callResult = <<>> /\ callError = <<>>

FetchIdle ==
    /\ fetched = <<>>

IdleExceptFetch == ExecIdle /\ UrlIdle /\ TreeIdle /\ AnswerIdle /\ RowIdle /\ TableIdle /\ CleanIdle /\ MergeIdle /\ BuildIdle /\ CombineIdle

IdleExceptCombine == ExecIdle /\ UrlIdle /\ TreeIdle /\ AnswerIdle /\ RowIdle /\ TableIdle /\ CleanIdle /\ MergeIdle /\ BuildIdle /\ FetchIdle

IdleExceptBuild == ExecIdle /\ UrlIdle /\ TreeIdle /\ AnswerIdle /\ RowIdle /\ TableIdle /\ CleanIdle /\ MergeIdle /\ CombineIdle /\ FetchIdle

IdleExceptMerge == ExecIdle /\ UrlIdle /\ TreeIdle /\ AnswerIdle /\ RowIdle /\ TableIdle /\ CleanIdle /\ BuildIdle /\ CombineIdle /\ FetchIdle

IdleExceptClean == ExecIdle /\ UrlIdle /\ TreeIdle /\ AnswerIdle /\ RowIdle /\ TableIdle /\ MergeIdle /\ BuildIdle /\ CombineIdle /\ FetchIdle

IdleExceptTable == ExecIdle /\ UrlIdle /\ TreeIdle /\ AnswerIdle /\ RowIdle /\ CleanIdle /\ MergeIdle /\ BuildIdle /\ CombineIdle /\ FetchIdle

IdleExceptExec == UrlIdle /\ TreeIdle /\ AnswerIdle /\ RowIdle /\ TableIdle /\ CleanIdle /\ MergeIdle /\ BuildIdle /\ CombineIdle /\ FetchIdle

IdleExceptUrl == ExecIdle /\ TreeIdle /\ AnswerIdle /\ RowIdle /\ TableIdle /\ CleanIdle /\ MergeIdle /\ BuildIdle /\ CombineIdle /\ FetchIdle

IdleExceptTree == ExecIdle /\ UrlIdle /\ AnswerIdle /\ RowIdle /\ TableIdle /\ CleanIdle /\ MergeIdle /\ BuildIdle /\ CombineIdle /\ FetchIdle

IdleExceptAnswer == ExecIdle /\ UrlIdle /\ TreeIdle /\ RowIdle /\ TableIdle /\ CleanIdle /\ MergeIdle /\ BuildIdle /\ CombineIdle /\ FetchIdle

IdleExceptRow == ExecIdle /\ UrlIdle /\ TreeIdle /\ AnswerIdle /\ TableIdle /\ CleanIdle /\ MergeIdle /\ BuildIdle /\ CombineIdle /\ FetchIdle

----------------------------------------------------------------------------
(* The executor calls *)

Executors == {"get_data", "get_clients", "_fetch_schedule", "_fetch_interactions",
              "merge_and_push", "_push_schedule", "set_schedule",
              "set_interactions", "legacy_set_interactions"}

\* The executors that build their params, JWT included, before the loop.
MintsBeforeLoop == {"merge_and_push", "_push_schedule", "set_schedule",
                    "legacy_set_interactions"}

\* The attempt budget the call runs with: set_interactions raises a budget
\* below 1 to 1, merge_and_push calls _push_schedule with its default, the
\* script's set_interactions has no loop.
EffectiveBudget(e, n) ==
    IF e = "set_interactions" THEN (IF n < 1 THEN 1 ELSE n)
    ELSE IF e = "merge_and_push" THEN DefaultRetries
    ELSE IF e = "legacy_set_interactions" THEN 1
    ELSE n

\* The argument checks made before any request: uc is "user_code is given",
\* key is "the private key file exists".
Precheck(e, uc, key) ==
    IF e = "merge_and_push" /\ ~uc THEN Raise("ValueError", "user_code is required", FALSE, FALSE)
    ELSE IF e \in {"merge_and_push", "set_schedule"} /\ ~key
         THEN Raise("FileNotFoundError", "RSA private key not found", FALSE, FALSE)
    ELSE Return

Environments(e) ==
    IF e \in {"merge_and_push", "set_schedule"} THEN BOOLEAN \X BOOLEAN
    ELSE {<<TRUE, TRUE>>}

Init ==
    /\ pc = "idle"
    /\ exec = "none"
    /\ budget = 0
    /\ attempt = 1
    /\ variant = 1
    /\ requests = 0
    /\ discarded = 0
    /\ sleepLog = <<>>
    /\ backoff = InitialBackoff
    /\ mints = 0
    /\ tokens = <<>>
    /\ replies = <<>>
    /\ outcome = Pending
    /\ mp = "none"
    /\ IdleExceptExec

\* A caller invokes executor e with attempt budget n.
Call ==
    /\ pc = "idle"
    /\ \E e \in Executors, n \in Budgets :
         \E env \in Environments(e) :
            LET N == EffectiveBudget(e, n)
                pre == Precheck(e, env[1], env[2])
            IN  /\ exec' = e
                /\ budget' = N
                /\ mp' = IF e = "merge_and_push" /\ pre.act = "return" THEN "fetch" ELSE "none"
                /\ mints' = IF e \in MintsBeforeLoop /\ pre.act = "return" THEN 1 ELSE 0
                /\ IF pre.act # "return"
                   THEN pc' = "done" /\ outcome' = OutcomeOf(pre)
                   ELSE IF N < 1
                        \* range(1, retries + 1) is empty: the function falls off its end
                        THEN pc' = "done" /\ outcome' = OutcomeOf(ReturnNone)
                        ELSE pc' = "run" /\ outcome' = Pending
                /\ UNCHANGED <<attempt, variant, requests, discarded, sleepLog,
                               backoff, tokens, replies>>
    /\ UNCHANGED <<exceptExec>>

\* One request of a logical attempt goes out; fresh: a token is minted for it.
Send(fresh) ==
    /\ requests' = requests + 1
    /\ mints' = IF fresh THEN mints + 1 ELSE mints
    /\ tokens' = Append(tokens, IF fresh THEN mints + 1 ELSE mints)

\* The attempt ends with reply r and decision d.
Conclude(d, r) ==
    /\ replies' = Append(replies, r)
    /\ variant' = 1
    /\ IF d.act = "retry"
       THEN /\ sleepLog' = Append(sleepLog, d.sleep)
            /\ attempt' = attempt + 1
            /\ backoff' = IF exec = "_fetch_interactions"
                          THEN Min(backoff * 2, BackoffCap) ELSE backoff
            /\ IF attempt < budget
               THEN pc' = "run" /\ outcome' = outcome
               ELSE pc' = "done" /\ outcome' = OutcomeOf(ReturnNone)
       ELSE /\ pc' = "done"
            /\ outcome' = OutcomeOf(d)
            /\ UNCHANGED <<sleepLog, attempt, backoff>>

get_data ==
    /\ pc = "run" /\ exec = "get_data"
    /\ \E r \in Replies :
         Send(TRUE) /\ Conclude(get_data_reply(r, attempt, budget), r)
    /\ UNCHANGED <<exec, budget, discarded, mp, exceptExec>>

get_clients ==
    /\ pc = "run" /\ exec = "get_clients"
    /\ \E r \in Replies :
         Send(TRUE) /\ Conclude(get_clients_reply(r, attempt, budget), r)
    /\ UNCHANGED <<exec, budget, discarded, mp, exceptExec>>

_fetch_schedule ==
    /\ pc = "run" /\ exec = "_fetch_schedule"
    /\ \E r \in Replies :
         Send(TRUE) /\ Conclude(_fetch_schedule_reply(r, attempt, budget), r)
    /\ UNCHANGED <<exec, budget, discarded, mp, exceptExec>>

_fetch_interactions ==
    /\ pc = "run" /\ exec = "_fetch_interactions"
    /\ \E r \in Replies :
         Send(TRUE) /\ Conclude(_fetch_interactions_reply(r, attempt, budget, backoff), r)
    /\ UNCHANGED <<exec, budget, discarded, mp, exceptExec>>

_push_schedule ==
    /\ pc = "run" /\ exec = "_push_schedule"
    /\ \E r \in Replies :
         Send(FALSE) /\ Conclude(_push_schedule_reply(r, attempt, budget), r)
    /\ UNCHANGED <<exec, budget, discarded, mp, exceptExec>>

set_schedule ==
    /\ pc = "run" /\ exec = "set_schedule"
    /\ \E r \in Replies :
         Send(FALSE) /\ Conclude(set_schedule_reply(r, attempt, budget), r)
    /\ UNCHANGED <<exec, budget, discarded, mp, exceptExec>>

legacy_set_interactions ==
    /\ pc = "run" /\ exec = "legacy_set_interactions"
    /\ \E r \in Replies :
         Send(FALSE) /\ Conclude(legacy_set_interactions_reply(r), r)
    /\ UNCHANGED <<exec, budget, discarded, mp, exceptExec>>

\* One POST of set_interactions: _post_set_interactions mints the token of the
\* logical attempt, _try_post_variants sends it in up to three encodings.
set_interactions ==
    /\ pc = "run" /\ exec = "set_interactions"
    /\ \E r \in Replies :
         LET how == _try_post_variants(variant, r) IN
         /\ requests' = requests + 1
         /\ mints' = IF variant = 1 THEN mints + 1 ELSE mints
         /\ tokens' = IF variant = 1 THEN Append(tokens, mints + 1) ELSE tokens
         /\ IF how = "next"
            THEN /\ variant' = variant + 1
                 /\ discarded' = discarded + 1
                 /\ UNCHANGED <<pc, attempt, sleepLog, backoff, replies, outcome>>
            ELSE /\ discarded' = discarded
                 /\ Conclude(IF how = "error"
                             THEN Raise("RuntimeError", "Network error when posting setInteractions", FALSE, FALSE)
                             ELSE set_interactions_reply(r, attempt, budget), r)
    /\ UNCHANGED <<exec, budget, mp, exceptExec>>

\* merge_and_push: the getSchedule request, and on status 1 the call of
\* _push_schedule with the cleaned remote entries plus the new ones.
merge_and_push ==
    /\ pc = "run" /\ exec = "merge_and_push" /\ mp = "fetch"
    /\ \E r \in Replies :
         LET d == merge_fetch_reply(r) IN
         \* the reply to the getSchedule request, whatever it is
         /\ fetched' = Append(fetched, r)
         /\ IF d.act = "return"
            THEN /\ exec' = "_push_schedule"
                 /\ mp' = "push"
                 \* the counters are those of the _push_schedule call, which mints its token
                 /\ mints' = 1
                 /\ requests' = 0
                 /\ tokens' = <<>>
                 /\ replies' = <<>>
                 /\ UNCHANGED <<pc, attempt, variant, sleepLog, backoff, outcome>>
            ELSE /\ Send(FALSE) /\ Conclude(d, r)
                 /\ UNCHANGED <<exec, mp>>
    /\ UNCHANGED <<budget, discarded, urlVars, treeVars, answerVars, rowVars, tableVars,
                   cleanVars, mergeVars, buildVars, combineVars>>

Next ==
    \/ Call
    \/ get_data
    \/ get_clients
    \/ _fetch_schedule
    \/ _fetch_interactions
    \/ _push_schedule
    \/ set_schedule
    \/ set_interactions
    \/ legacy_set_interactions
    \/ merge_and_push

Spec == Init /\ [][Next]_vars


----------------------------------------------------------------------------
(* Properties of the executors *)

Sleeps == Len(sleepLog)

Last == replies[Len(replies)]

\* A 2xx JSON reply whose status field is s.
IsStatus(r, s) == r.kind = "json" /\ r.http = 200 /\ r.status = s

Transient(r) == IsStatus(r, -1)

Fatal(r) == r.kind = "json" /\ r.http = 200 /\ r.status \notin {1, -1}

\* The calls that run a retry loop under an attempt budget.
InRetryLoop == exec \in Executors \ {"merge_and_push", "legacy_set_interactions"}

AllTransient(n) == \A i \in 1 .. n : Transient(replies[i])

\* What executor e decides on reply r.
ReplyDecision(e, r, a, N, b) ==
    CASE e = "get_data" -> get_data_reply(r, a, N)
      [] e = "get_clients" -> get_clients_reply(r, a, N)
      [] e = "_fetch_schedule" -> _fetch_schedule_reply(r, a, N)
      [] e = "_fetch_interactions" -> _fetch_interactions_reply(r, a, N, b)
      [] e = "merge_and_push" -> merge_fetch_reply(r)
      [] e = "_push_schedule" -> _push_schedule_reply(r, a, N)
      [] e = "set_schedule" -> set_schedule_reply(r, a, N)
      [] e = "set_interactions" -> set_interactions_reply(r, a, N)
      [] e = "legacy_set_interactions" -> legacy_set_interactions_reply(r)

\* C1: with budget N, after k < N replies of status -1 the call is still
\* running with k requests and k sleeps behind it, and a following status 1
\* makes it return the success body after exactly k+1 requests and k sleeps.
C1_RetryThenSuccess ==
    (InRetryLoop /\ replies # <<>> /\ discarded = 0 /\ Len(replies) <= budget
        /\ AllTransient(Len(replies) - 1))
    => LET k == Len(replies) - 1 IN
       /\ IsStatus(Last, 1) =>
            /\ pc = "done" /\ outcome.kind = "return" /\ outcome.body
            /\ requests = k + 1 /\ Sleeps = k
       /\ (Transient(Last) /\ k + 1 < budget) =>
            /\ pc = "run" /\ requests = k + 1 /\ Sleeps = k + 1

C1_Witness ==
    /\ exec = "get_data" /\ budget = 3 /\ pc = "done"
    /\ Len(replies) = 3 /\ AllTransient(2) /\ IsStatus(replies[3], 1)
    /\ outcome.kind = "return" /\ requests = 3 /\ Sleeps = 2

\* C2: a reply whose status is neither 1 nor -1 ends the call at once, with a
\* failure and with no further request and no sleep.
C2_FatalStatusFailsAtOnce ==
    (replies # <<>> /\ Fatal(Last))
    => /\ pc = "done" /\ outcome.kind = "raise"
       /\ Sleeps = Len(replies) - 1
       /\ requests = Len(replies) + discarded

\* The half of C2 that every executor keeps: a status that is neither 1 nor -1
\* is never followed by a sleep or another request.
NoRetryOnFatalStatus ==
    (replies # <<>> /\ Fatal(Last))
    => pc = "done" /\ Sleeps = Len(replies) - 1 /\ requests = Len(replies) + discarded

\* C3: in every executor a reply whose status is neither 1 nor -1 is never
\* returned as a normal result; the call ends in a failure that carries the
\* full reply body.
C3_FatalStatusSurfacedWithBody ==
    (InRetryLoop /\ pc = "done" /\ replies # <<>> /\ Fatal(Last))
    => outcome.kind = "raise" /\ outcome.body

\* The failure a caller can observe: the exception type, its message and the
\* reply body the message carries, if any.
Failure(o, r) == <<o.exc, o.msg, IF o.body THEN r ELSE NetErr>>

\* C4: N replies of status -1 under budget N end the call after N requests and
\* N-1 sleeps with a failure that names the status -1 and differs from the
\* failure the same executor raises for a fatal status.
C4_RetriesExhausted ==
    (InRetryLoop /\ budget >= 1 /\ Len(replies) = budget /\ discarded = 0
        /\ AllTransient(budget))
    => /\ pc = "done" /\ outcome.kind = "raise"
       /\ requests = budget /\ Sleeps = budget - 1
       /\ outcome.names
       /\ \A s \in Statuses \ {1, -1} :
            LET r == [kind |-> "json", http |-> 200, status |-> s]
                fatal == OutcomeOf(ReplyDecision(exec, r, budget, budget, backoff))
            IN  Failure(outcome, Last) # Failure(fatal, r)

\* C5: no token is sent in two attempts of one call, and a finished call has
\* minted as many tokens as it made attempts.
C5_FreshTokenPerAttempt ==
    /\ \A i, j \in 1 .. Len(tokens) : i # j => tokens[i] # tokens[j]
    /\ (pc = "done" /\ tokens # <<>>) => mints = Len(tokens)

\* C6: in every operation a reply of status -1 that leaves attempts in the
\* budget is followed by a retry, never by the end of the call.
C6_TransientRetriedEverywhere ==
    (replies # <<>> /\ Transient(Last) /\ Len(replies) < budget)
    => pc = "run" /\ Sleeps = Len(replies)

\* C7: a timeout or connection failure that leaves attempts in the budget is
\* followed by a sleep and a retry.
C7_TransportFailureRetried ==
    (InRetryLoop /\ replies # <<>> /\ Last.kind = "neterr" /\ Len(replies) < budget)
    => pc = "run" /\ Sleeps = Len(replies)

----------------------------------------------------------------------------
(* The request trace of get_clients: _call_raw prints the prepared URL with *)
(* the JWT value redacted.  A URL is a sequence of characters; the fixed    *)
(* texts that hold neither "JWT=" nor "&" are one symbol each.              *)

MaxTokenLen == 2

TokenChars == {"k", "&", "="}

SeqsUpTo(S, n) == UNION {[1 .. m -> S] : m \in 1 .. n}

JwtEq == <<"J", "W", "T", "=">>

\* what make_jwt may hand over: any text, "JWT" and "JWT=" among them
Tokens == SeqsUpTo(TokenChars, MaxTokenLen) \cup {<<"J", "W", "T">>, JwtEq}

UserCodes == {<<>>, <<"u">>, <<"J", "W", "T">>, JwtEq}

ChangedAfters == {<<>>, <<"2", "0", "2", "4">>}

\* requests percent-encodes the characters of a parameter value that would
\* otherwise end the value or the name
Quote(c) ==
    IF c = "=" THEN <<"%", "3", "D">>
    ELSE IF c = "&" THEN <<"%", "2", "6">>
    ELSE <<c>>

RECURSIVE Encode(_)
Encode(v) == IF v = <<>> THEN <<>> ELSE Quote(Head(v)) \o Encode(Tail(v))

\* prepped.url for params = {userCode, JWT[, changedAfterUTC]}, in that order
PreparedUrl(uc, token, after) ==
    <<"BASE/getClients?", "userCode", "=">> \o Encode(uc)
        \o <<"&">> \o JwtEq \o Encode(token)
        \o (IF after = <<>> THEN <<>>
            ELSE <<"&", "changedAfterUTC", "=">> \o Encode(after))

StartsAt(s, p, i) ==
    /\ i + Len(p) - 1 <= Len(s)
    /\ SubSeq(s, i, i + Len(p) - 1) = p

\* index of the first occurrence of p in s, 0 when there is none
Find(s, p) ==
    IF \E i \in 1 .. Len(s) : StartsAt(s, p, i)
    THEN CHOOSE i \in 1 .. Len(s) :
            /\ StartsAt(s, p, i)
            /\ \A j \in 1 .. (i - 1) : ~StartsAt(s, p, j)
    ELSE 0

Before(s, p) == IF Find(s, p) = 0 THEN s ELSE SubSeq(s, 1, Find(s, p) - 1)

After(s, p) == SubSeq(s, Find(s, p) + Len(p), Len(s))

\* the text after the JWT value is kept from its first "&" on
Redact(head, tail) ==
    IF Find(tail, <<"&">>) # 0
    THEN head \o JwtEq \o <<"<redacted>", "&">> \o After(tail, <<"&">>)
    ELSE head \o JwtEq \o <<"<redacted>">>

\* a sanitizer that puts the marker in front of the value and keeps the value
_sanitize_url_keepsValue(url) ==
    IF Find(url, JwtEq) # 0
    THEN Before(url, JwtEq) \o JwtEq \o <<"<redacted>">> \o After(url, JwtEq)
    ELSE url

\* package: url.split("JWT=", 1)
_sanitize_url(url) ==
    IF Find(url, JwtEq) # 0
    THEN Redact(Before(url, JwtEq), After(url, JwtEq))
    ELSE url

\* script: url.split("JWT=") and its first two parts
script_sanitize_url(url) ==
    IF Find(url, JwtEq) # 0
    THEN Redact(Before(url, JwtEq), Before(After(url, JwtEq), JwtEq))
    ELSE url

InitUrl ==
    /\ IdleExceptUrl
    /\ userCode \in UserCodes
    /\ jwtA \in Tokens
    /\ jwtB \in Tokens
    /\ changedAfter \in ChangedAfters
    /\ shown = "none"
    /\ traceA = <<>>
    /\ traceB = <<>>

\* package _call_raw with show_url set, once for each of the two tokens
_call_raw ==
    /\ shown = "none"
    /\ shown' = "package"
    /\ traceA' = <<"GET ">> \o _sanitize_url(PreparedUrl(userCode, jwtA, changedAfter))
    /\ traceB' = <<"GET ">> \o _sanitize_url(PreparedUrl(userCode, jwtB, changedAfter))
    /\ UNCHANGED <<userCode, jwtA, jwtB, changedAfter, exceptUrl>>

\* the script's _call_raw with show_url set
script_call_raw ==
    /\ shown = "none"
    /\ shown' = "script"
    /\ traceA' = <<"GET ">> \o script_sanitize_url(PreparedUrl(userCode, jwtA, changedAfter))
    /\ traceB' = <<"GET ">> \o script_sanitize_url(PreparedUrl(userCode, jwtB, changedAfter))
    /\ UNCHANGED <<userCode, jwtA, jwtB, changedAfter, exceptUrl>>

NextUrl ==
    \/ _call_raw
    \/ script_call_raw

SpecUrl == InitUrl /\ [][NextUrl]_vars

Chars(s) == {s[i] : i \in 1 .. Len(s)}

\* the trace of a request whose JWT value is replaced by the marker
RedactedTrace ==
    <<"GET ", "BASE/getClients?", "userCode", "=">> \o Encode(userCode)
        \o <<"&">> \o JwtEq \o <<"<redacted>">>
        \o (IF changedAfter = <<>> THEN <<>>
            ELSE <<"&", "changedAfterUTC", "=">> \o Encode(changedAfter))

\* C9: the traces printed for two requests that differ only in the JWT value
\* are the same text, that text is the request with the marker in the place of
\* the value, and no character that only a token holds is in it, whether the
\* JWT parameter is last or is followed by changedAfterUTC.
C9_TokenNeverInTrace ==
    shown # "none"
    => /\ traceA = traceB
       /\ traceA = RedactedTrace
       /\ "k" \notin Chars(traceA) \cup Chars(traceB)

C9_Witness ==
    /\ shown = "package"
    /\ jwtA = <<"k", "&">> /\ jwtB = JwtEq
    /\ userCode = <<"J", "W", "T">>
    /\ changedAfter # <<>>
    /\ traceA = traceB
    /\ Len(traceA) = Len(RedactedTrace)

C9_WitnessJwtLast ==
    /\ shown = "script"
    /\ jwtA # jwtB /\ "k" \in Chars(jwtA)
    /\ changedAfter = <<>>
    /\ traceA[Len(traceA)] = "<redacted>"
    /\ traceA = traceB

----------------------------------------------------------------------------
(* The interactions tree and its flattening.  A node is a record with the   *)
(* keys typeQuestion, shortQuestion, itemId and items; the reply is built   *)
(* node by node in document order, and _questions_df flattens a root.       *)

MaxNodes == 5

TypeQuestions == {"container", "question"}

ShortQuestions == {"", "q"}

Node(n, t, s) ==
    [itemId |-> ToString(n), typeQuestion |-> t, shortQuestion |-> s, items |-> <<>>]

\* length of the chain root, last child, last child of it, ...
RECURSIVE SpineDepth(_)
SpineDepth(item) ==
    IF item.items = <<>> THEN 0 ELSE 1 + SpineDepth(item.items[Len(item.items)])

\* item with child appended to the items of the node d levels down that chain
RECURSIVE AddAt(_, _, _)
AddAt(item, d, child) ==
    IF d = 0
    THEN [item EXCEPT !.items = Append(@, child)]
    ELSE [item EXCEPT !.items[Len(item.items)] = AddAt(@, d - 1, child)]

\* a join that keeps the empty segments
RECURSIVE Join_keepsEmpty(_)
Join_keepsEmpty(segs) ==
    IF segs = <<>> THEN <<>>
    ELSE IF Tail(segs) = <<>> THEN <<Head(segs)>>
    ELSE <<Head(segs), "/">> \o Join_keepsEmpty(Tail(segs))

\* "/".join(p for p in cur_path if p)
RECURSIVE Join(_)
Join(segs) ==
    IF segs = <<>> THEN <<>>
    ELSE IF Head(segs) = "" THEN Join(Tail(segs))
    ELSE IF Join(Tail(segs)) = <<>> THEN <<Head(segs)>>
    ELSE <<Head(segs), "/">> \o Join(Tail(segs))

\* item.get("shortQuestion") or item.get("itemId", "")
Segment(item) ==
    IF item.shortQuestion # "" THEN item.shortQuestion ELSE item.itemId

\* the record of a question: its path and every key but items
Rec(item, cur_path) ==
    [path |-> Join(cur_path), itemId |-> item.itemId,
     typeQuestion |-> item.typeQuestion, shortQuestion |-> item.shortQuestion]

RECURSIVE _walk_rowForContainer(_, _, _)
RECURSIVE _walk_rowForContainer_items(_, _, _, _)
\* a walk with the container branch's return left out
_walk_rowForContainer(item, path, acc) ==
    Append(IF item.typeQuestion = "container"
           THEN _walk_rowForContainer_items(item.items, 1, Append(path, Segment(item)), acc)
           ELSE acc,
           Rec(item, Append(path, Segment(item))))

_walk_rowForContainer_items(items, i, cur_path, acc) ==
    IF i > Len(items) THEN acc
    ELSE _walk_rowForContainer_items(items, i + 1, cur_path,
                                     _walk_rowForContainer(items[i], cur_path, acc))

RECURSIVE _walk(_, _, _)
RECURSIVE _walk_items(_, _, _, _)
\* the rows after _walk(item, path, rows), acc being the rows before it
_walk(item, path, acc) ==
    IF item.typeQuestion = "container"
    THEN _walk_items(item.items, 1, Append(path, Segment(item)), acc)
    ELSE Append(acc, Rec(item, Append(path, Segment(item))))

\* for child in item.get("items", []): _walk(child, cur_path, rows)
_walk_items(items, i, cur_path, acc) ==
    IF i > Len(items) THEN acc
    ELSE _walk_items(items, i + 1, cur_path, _walk(items[i], cur_path, acc))

\* the mapping {}: a key that is absent reads as "" and as no items
EmptyMapping ==
    [itemId |-> "", typeQuestion |-> "", shortQuestion |-> "", items |-> <<>>]

\* the value None in the place of a root
NoneRoot == [none |-> TRUE]

IsNone(item) == "none" \in DOMAIN item

InitTree ==
    /\ IdleExceptTree
    /\ \/ \E t \in TypeQuestions, s \in ShortQuestions : tree = Node(1, t, s)
       \/ tree = EmptyMapping
       \/ tree = NoneRoot
    /\ treeSize = 1
    /\ flattened = FALSE
    /\ rows = <<>>
    /\ treeError = "none"

\* the next node of the reply, as a child of a node on the open chain
Receive ==
    /\ ~flattened
    /\ treeError = "none"
    /\ ~IsNone(tree)
    /\ treeSize < MaxNodes
    /\ \E d \in 0 .. SpineDepth(tree), t \in TypeQuestions, s \in ShortQuestions :
            tree' = AddAt(tree, d, Node(treeSize + 1, t, s))
    /\ treeSize' = treeSize + 1
    /\ UNCHANGED <<flattened, rows, treeError, exceptTree>>

\* item.get on None raises AttributeError before any row is collected
_questions_df ==
    /\ ~flattened
    /\ treeError = "none"
    /\ IF IsNone(tree)
       THEN /\ treeError' = "AttributeError"
            /\ UNCHANGED <<flattened, rows>>
       ELSE /\ rows' = _walk(tree, <<>>, <<>>)
            /\ flattened' = TRUE
            /\ UNCHANGED treeError
    /\ UNCHANGED <<tree, treeSize, exceptTree>>

NextTree ==
    \/ Receive
    \/ _questions_df

SpecTree == InitTree /\ [][NextTree]_vars

RECURSIVE Preorder(_, _)
RECURSIVE PreorderItems(_, _, _)
\* every node of the tree under item in depth-first order, children in their
\* given order, each with whether all the nodes above it are containers
Preorder(item, reached) ==
    << [itemId |-> item.itemId, typeQuestion |-> item.typeQuestion,
        shortQuestion |-> item.shortQuestion, reached |-> reached] >>
        \o PreorderItems(item.items, 1, reached /\ item.typeQuestion = "container")

PreorderItems(items, i, reached) ==
    IF i > Len(items) THEN <<>>
    ELSE Preorder(items[i], reached) \o PreorderItems(items, i + 1, reached)

IsQuestion(n) == n.typeQuestion # "container"

IsReachedQuestion(n) == IsQuestion(n) /\ n.reached

NonContainers == SelectSeq(Preorder(tree, TRUE), IsQuestion)

ReachedNonContainers == SelectSeq(Preorder(tree, TRUE), IsReachedQuestion)

\* rows and nodes agree one to one and in order
Correspond(rs, ns) ==
    /\ Len(rs) = Len(ns)
    /\ \A i \in 1 .. Len(rs) :
            /\ rs[i].itemId = ns[i].itemId
            /\ rs[i].typeQuestion = ns[i].typeQuestion
            /\ rs[i].shortQuestion = ns[i].shortQuestion

NoContainerRow == \A i \in 1 .. Len(rows) : rows[i].typeQuestion # "container"

\* only containers carry children
RECURSIVE LeavesAreChildless(_)
LeavesAreChildless(item) ==
    /\ item.typeQuestion # "container" => item.items = <<>>
    /\ \A i \in 1 .. Len(item.items) : LeavesAreChildless(item.items[i])

\* C10 as stated: the rows are, one to one and in depth-first order, the
\* non-container nodes of the tree, so there are as many rows as non-container
\* nodes, and no row is a container.
C10_RowsAreNonContainers ==
    flattened => (Correspond(rows, NonContainers) /\ NoContainerRow)

\* C10 as amended: the rows are, one to one and in depth-first order, the
\* non-container nodes that have only containers above them; the items of a
\* non-container node are not visited, and no row is a container.
C10_RowsAreReachedNonContainers ==
    flattened => (Correspond(rows, ReachedNonContainers) /\ NoContainerRow)

\* where only containers carry children the two readings agree
RowsAreNonContainersOfTypedTree ==
    (flattened /\ LeavesAreChildless(tree)) => Correspond(rows, NonContainers)

\* a container in a container, and a question that carries a question
C10_Witness ==
    /\ flattened
    /\ treeSize = 5
    /\ tree.typeQuestion = "container" /\ Len(tree.items) = 2
    /\ tree.items[1].typeQuestion = "container" /\ Len(tree.items[1].items) = 1
    /\ tree.items[1].items[1].typeQuestion = "question"
    /\ tree.items[2].typeQuestion = "question" /\ Len(tree.items[2].items) = 1
    /\ tree.items[2].items[1].typeQuestion = "question"
    /\ Len(rows) = 2
    /\ rows[1].itemId = "3" /\ rows[2].itemId = "4"
    /\ Len(NonContainers) = 3

C10_WitnessSkippedItems ==
    /\ flattened
    /\ tree.typeQuestion = "container" /\ Len(tree.items) = 1
    /\ tree.items[1].typeQuestion = "question" /\ Len(tree.items[1].items) = 1
    /\ tree.items[1].items[1].typeQuestion = "question"
    /\ Len(rows) = 1 /\ Len(NonContainers) = 2

\* a root without children: None, the mapping {}, or a container whose items
\* are empty or missing
ChildlessRoot ==
    \/ IsNone(tree)
    \/ tree = EmptyMapping
    \/ (tree.typeQuestion = "container" /\ tree.items = <<>>)

FlattenEnded == flattened \/ treeError # "none"

\* C11: flattening a root that has no children (None, an empty mapping, a
\* container with empty or missing items) returns zero rows and does not raise.
C11_ChildlessRootGivesNoRows ==
    (FlattenEnded /\ ChildlessRoot) => (treeError = "none" /\ rows = <<>>)

\* the part of C11 that holds: a container without items gives zero rows
ChildlessContainerGivesNoRows ==
    (FlattenEnded /\ ~IsNone(tree) /\ tree.typeQuestion = "container" /\ tree.items = <<>>)
        => (treeError = "none" /\ rows = <<>>)

\* the mapping {} gives one row whose path is empty
EmptyMappingGivesOneRow ==
    (FlattenEnded /\ ~IsNone(tree) /\ tree = EmptyMapping)
        => (Len(rows) = 1 /\ rows[1].path = <<>>)

----------------------------------------------------------------------------
(* Flattening one answer block (get_data._flatten_answer).  A column name   *)
(* and a value are sequences of text pieces, so that f"{prefix}{k}" is a    *)
(* concatenation; a record maps the names written so far to their values.   *)

MaxFieldLen == 2

\* element j of the answer field t, e.g. <<"i", "1">> for iAnswer[0]
Element(t, j) == <<t, ToString(j)>>

Absent == [present |-> FALSE, v |-> <<>>]

Given(list) == [present |-> TRUE, v |-> list]

\* an answer field: missing, empty, or a list of up to MaxFieldLen elements
FieldValues(t) ==
    {Absent} \cup {Given([j \in 1 .. n |-> Element(t, j)]) : n \in 0 .. MaxFieldLen}

RECURSIVE JoinList(_)
JoinList(list) ==
    IF list = <<>> THEN <<>>
    ELSE IF Len(list) = 1 THEN Head(list)
    ELSE Head(list) \o <<", ">> \o JoinList(Tail(list))

\* json.dumps of a list
_to_scalar_list(list) == <<"[">> \o JoinList(list) \o <<"]">>

\* a write that keeps the value a name already has
Write_keepsFirst(rec, name, v) ==
    [n \in DOMAIN rec \cup {name} |-> IF n \in DOMAIN rec THEN rec[n] ELSE v]

\* rec[name] = v
Write(rec, name, v) ==
    [n \in DOMAIN rec \cup {name} |-> IF n = name THEN v ELSE rec[n]]

EmptyRec == [n \in {} |-> <<>>]

\* an answer block; scalars holds its keys other than typeAnswer, the three
\* answer fields, basicQuestion and cAnswer, as <<key, value>> in dict order
Answer(type, scalars, bq, i, d, s, children) ==
    [typeAnswer |-> type, scalars |-> scalars, basicQuestion |-> bq,
     iAnswer |-> i, dAnswer |-> d, sAnswer |-> s, cAnswer |-> children]

\* ans.items() without basicQuestion and cAnswer, values through _to_scalar
ScalarItems(a) ==
    << <<(<<"typeAnswer">>), <<a.typeAnswer>> >> >>
        \o a.scalars
        \o (IF a.iAnswer.present THEN << <<(<<"iAnswer">>), _to_scalar_list(a.iAnswer.v)>> >> ELSE <<>>)
        \o (IF a.dAnswer.present THEN << <<(<<"dAnswer">>), _to_scalar_list(a.dAnswer.v)>> >> ELSE <<>>)
        \o (IF a.sAnswer.present THEN << <<(<<"sAnswer">>), _to_scalar_list(a.sAnswer.v)>> >> ELSE <<>>)

\* for k, v in items: rec[prefix + infix + k] = v
RECURSIVE WriteItems(_, _, _)
WriteItems(rec, prefix, items) ==
    IF items = <<>> THEN rec
    ELSE WriteItems(Write(rec, prefix \o Head(items)[1], Head(items)[2]),
                    prefix, Tail(items))

\* ans[valkey], falsy when the key is missing or the list is empty
FieldOf(a, valkey) ==
    IF valkey = "iAnswer" THEN a.iAnswer
    ELSE IF valkey = "dAnswer" THEN a.dAnswer
    ELSE a.sAnswer

\* for valkey in valkeys: if valkey in ans and ans[valkey]: write [0]; break
RECURSIVE ExtractValue(_, _, _, _)
ExtractValue(rec, a, prefix, valkeys) ==
    IF valkeys = <<>> THEN rec
    ELSE IF FieldOf(a, Head(valkeys)).present /\ FieldOf(a, Head(valkeys)).v # <<>>
    THEN Write(rec, prefix \o <<"value">>, FieldOf(a, Head(valkeys)).v[1])
    ELSE ExtractValue(rec, a, prefix, Tail(valkeys))

\* dict.get(key, default) on a list of <<key, value>>
RECURSIVE Get(_, _, _)
Get(items, key, default) ==
    IF items = <<>> THEN default
    ELSE IF Head(items)[1] = key THEN Head(items)[2]
    ELSE Get(Tail(items), key, default)

\* a flattening that looks at sAnswer first
ValKeys_stringFirst == <<"sAnswer", "dAnswer", "iAnswer">>

ValKeys == <<"iAnswer", "dAnswer", "sAnswer">>

RECURSIVE _flatten_answer(_, _, _)
RECURSIVE _flatten_children(_, _, _, _)
\* a flattening that descends into cAnswer whatever the typeAnswer is
_flatten_answer_anyParent(a, rec, prefix) ==
    LET r1 == WriteItems(rec, prefix, ScalarItems(a))
        r2 == WriteItems(r1, prefix \o <<"basicQuestion", "_">>, a.basicQuestion)
        r3 == ExtractValue(r2, a, prefix, ValKeys)
    IN  _flatten_children(a.cAnswer, 1, r3, prefix)

_flatten_answer(a, rec, prefix) ==
    LET r1 == WriteItems(rec, prefix, ScalarItems(a))
        r2 == WriteItems(r1, prefix \o <<"basicQuestion", "_">>, a.basicQuestion)
        r3 == ExtractValue(r2, a, prefix, ValKeys)
    IN  IF a.typeAnswer = "containerAnswer"
        THEN _flatten_children(a.cAnswer, 1, r3, prefix)
        ELSE r3

\* for child in ans.get("cAnswer", []): flatten under prefix + child_sq + "_"
_flatten_children(children, i, rec, prefix) ==
    IF i > Len(children) THEN rec
    ELSE _flatten_children(children, i + 1,
            _flatten_answer(children[i], rec,
                prefix \o Get(children[i].basicQuestion, <<"shortQuestion">>, <<"container">>)
                       \o <<"_">>),
            prefix)

TypeAnswers == {"open", "containerAnswer"}

\* the answer's own key "value", a key the extraction also writes to
OwnValue == << <<(<<"value">>), <<"own">> >> >>

BasicQuestions == {<<>>, << <<(<<"shortQuestion">>), <<"Q">> >> >>}

ChildAnswer ==
    Answer("open", <<>>, << <<(<<"shortQuestion">>), <<"c">> >> >>,
           Given(<<Element("i", 1)>>), Absent, Absent, <<>>)

Answers ==
    {Answer(t, sc, bq, i, d, s, ch) :
        t \in TypeAnswers, sc \in {<<>>, OwnValue}, bq \in BasicQuestions,
        i \in FieldValues("i"), d \in FieldValues("d"), s \in FieldValues("s"),
        ch \in {<<>>, <<ChildAnswer>>}}

QPrefix == <<"Q", "_">>

ValueColumn == ansPrefix \o <<"value">>

InitAnswer ==
    /\ IdleExceptAnswer
    /\ ans \in Answers
    /\ ansPrefix = QPrefix
    /\ ansRec \in {EmptyRec, Write(EmptyRec, QPrefix \o <<"value">>, <<"old">>)}
    /\ ansDone = FALSE

\* flatten_rows hands one answer of the row to _flatten_answer
flatten_answer ==
    /\ ~ansDone
    /\ ansRec' = _flatten_answer(ans, ansRec, ansPrefix)
    /\ ansDone' = TRUE
    /\ UNCHANGED <<ans, ansPrefix, exceptAnswer>>

NextAnswer == flatten_answer

SpecAnswer == InitAnswer /\ [][NextAnswer]_vars

NonEmpty(f) == f.present /\ f.v # <<>>

FieldElements ==
    {Element(t, j) : t \in {"i", "d", "s"}, j \in 1 .. MaxFieldLen}

\* C12: for a non-container answer flattened under prefix P, the column
\* P+"value" holds the first element of iAnswer when that is non-empty, else of
\* dAnswer when that is non-empty, else of sAnswer when that is non-empty; when
\* all three are missing or empty, no element of an answer field is written to
\* the column.
C12_ValuePriority ==
    (ansDone /\ ans.typeAnswer # "containerAnswer")
    => IF NonEmpty(ans.iAnswer)
       THEN ValueColumn \in DOMAIN ansRec /\ ansRec[ValueColumn] = ans.iAnswer.v[1]
       ELSE IF NonEmpty(ans.dAnswer)
       THEN ValueColumn \in DOMAIN ansRec /\ ansRec[ValueColumn] = ans.dAnswer.v[1]
       ELSE IF NonEmpty(ans.sAnswer)
       THEN ValueColumn \in DOMAIN ansRec /\ ansRec[ValueColumn] = ans.sAnswer.v[1]
       ELSE ValueColumn \in DOMAIN ansRec => ansRec[ValueColumn] \notin FieldElements

\* iAnswer is an empty list, dAnswer is missing, sAnswer has two elements, and
\* the answer has a key "value" of its own
C12_Witness ==
    /\ ansDone
    /\ ans.typeAnswer = "open"
    /\ ans.iAnswer = Given(<<>>)
    /\ ans.dAnswer = Absent
    /\ Len(ans.sAnswer.v) = 2
    /\ ans.scalars = OwnValue
    /\ ansRec[ValueColumn] = Element("s", 1)

\* iAnswer and sAnswer both non-empty: the integer answer wins
C12_WitnessEarlierWins ==
    /\ ansDone
    /\ ans.typeAnswer = "open"
    /\ NonEmpty(ans.iAnswer) /\ NonEmpty(ans.dAnswer) /\ NonEmpty(ans.sAnswer)
    /\ ansRec[ValueColumn] = Element("i", 1)

----------------------------------------------------------------------------
(* Flattening one response record (get_data.flatten_rows).  An entry has    *)
(* its top-level fields, the fields of entry["data"] and the answers, each  *)
(* list in dict order.                                                      *)

MaxAnswers == 2

ShortQuestion(sq) == << <<(<<"shortQuestion">>), sq>> >>

\* top-level fields whose names are also written for the data fields and for
\* the answers
TopFields ==
    {<<>>,
     << <<(<<"data", "_", "x">>), <<"top1">> >> >>,
     << <<(<<"Q", "_", "value">>), <<"top2">> >> >>,
     << <<(<<"data", "_", "x">>), <<"top1">> >>, <<(<<"Q", "_", "value">>), <<"top2">> >> >>}

DataFields == {<<>>, << <<(<<"x">>), <<"dx">> >> >>}

RowAnswers ==
    {Answer("open", <<>>, <<>>, Given(<<Element("i", 1)>>), Absent, Absent, <<>>),
     Answer("open",
            OwnValue \o << <<(<<"basicQuestion", "_", "shortQuestion">>), <<"own2">> >> >>,
            ShortQuestion(<<"Q">>), Absent, Absent, Given(<<Element("s", 1)>>), <<>>),
     Answer("containerAnswer", << <<(<<"c", "_", "value">>), <<"own3">> >> >>,
            ShortQuestion(<<"Q">>), Absent, Absent, Absent, <<ChildAnswer>>),
     Answer("open", <<>>, ShortQuestion(<<"Q", "_", "c">>),
            Absent, Given(<<Element("d", 1)>>), Absent, <<>>),
     Answer("open", <<>>, ShortQuestion(<<"R">>), Absent, Absent, Absent, <<>>)}

Entries ==
    {[top |-> t, data |-> d, answers |-> a] :
        t \in TopFields, d \in DataFields,
        a \in UNION {[1 .. n -> RowAnswers] : n \in 0 .. MaxAnswers}}

\* for ans in inner.get("answers", []): flatten under its shortQuestion or "Q"
RECURSIVE flatten_answers(_, _, _)
flatten_answers(answers, i, rec) ==
    IF i > Len(answers) THEN rec
    ELSE flatten_answers(answers, i + 1,
            _flatten_answer(answers[i], rec,
                Get(answers[i].basicQuestion, <<"shortQuestion">>, <<"Q">>) \o <<"_">>))

\* the row flatten_rows builds for one entry
flatten_entry(e) ==
    flatten_answers(e.answers, 1,
        WriteItems(WriteItems(EmptyRec, <<>>, e.top), <<"data", "_">>, e.data))

InitRows ==
    /\ IdleExceptRow
    /\ entry \in Entries
    /\ row = <<>>
    /\ rowDone = FALSE

flatten_rows ==
    /\ ~rowDone
    /\ row' = flatten_entry(entry)
    /\ rowDone' = TRUE
    /\ UNCHANGED <<entry, exceptRow>>

NextRows == flatten_rows

SpecRows == InitRows /\ [][NextRows]_vars

\* the writes of a list of fields under a prefix, in list order
Prefixed(prefix, items) ==
    [j \in 1 .. Len(items) |-> <<prefix \o items[j][1], items[j][2]>>]

FirstNonEmptyField(a) ==
    IF NonEmpty(a.iAnswer) THEN <<a.iAnswer.v[1]>>
    ELSE IF NonEmpty(a.dAnswer) THEN <<a.dAnswer.v[1]>>
    ELSE IF NonEmpty(a.sAnswer) THEN <<a.sAnswer.v[1]>>
    ELSE <<>>

RECURSIVE AnswerWrites(_, _)
RECURSIVE ChildWrites(_, _, _)
\* the writes of one answer: its scalar fields, then its basicQuestion_
\* fields, then value, then its child answers
AnswerWrites(a, prefix) ==
    Prefixed(prefix, ScalarItems(a))
        \o Prefixed(prefix \o <<"basicQuestion", "_">>, a.basicQuestion)
        \o [j \in 1 .. Len(FirstNonEmptyField(a)) |->
                <<prefix \o <<"value">>, FirstNonEmptyField(a)[j]>>]
        \o (IF a.typeAnswer = "containerAnswer" THEN ChildWrites(a.cAnswer, 1, prefix) ELSE <<>>)

ChildWrites(children, i, prefix) ==
    IF i > Len(children) THEN <<>>
    ELSE AnswerWrites(children[i],
                      prefix \o Get(children[i].basicQuestion, <<"shortQuestion">>, <<"container">>)
                             \o <<"_">>)
         \o ChildWrites(children, i + 1, prefix)

RECURSIVE AnswersWrites(_, _)
AnswersWrites(answers, i) ==
    IF i > Len(answers) THEN <<>>
    ELSE AnswerWrites(answers[i],
                      Get(answers[i].basicQuestion, <<"shortQuestion">>, <<"Q">>) \o <<"_">>)
         \o AnswersWrites(answers, i + 1)

\* every write made for the entry, in the fixed write order
WriteOrder(e) ==
    Prefixed(<<>>, e.top) \o Prefixed(<<"data", "_">>, e.data) \o AnswersWrites(e.answers, 1)

LastWriteTo(log, name) ==
    log[CHOOSE j \in 1 .. Len(log) :
            /\ log[j][1] = name
            /\ \A k \in (j + 1) .. Len(log) : log[k][1] # name][2]

Collisions(log) ==
    {<<j, k>> \in (1 .. Len(log)) \X (1 .. Len(log)) :
        j < k /\ log[j][1] = log[k][1] /\ log[j][2] # log[k][2]}

\* C13: the finished row has exactly the names written, and each name holds
\* the value of the last write to it in the order top-level fields, data_
\* fields, answers in sequence (scalar fields, basicQuestion_ fields, value,
\* child answers); no earlier value survives a later write to the same name.
C13_LastWriteWins ==
    rowDone
    => /\ DOMAIN row = {WriteOrder(entry)[j][1] : j \in 1 .. Len(WriteOrder(entry))}
       /\ \A n \in DOMAIN row : row[n] = LastWriteTo(WriteOrder(entry), n)

\* a top-level field Q_value, an answer whose own key "value" and whose
\* extracted value both write Q_value, and a later answer that writes it again
C13_Witness ==
    /\ rowDone
    /\ Len(entry.top) = 2 /\ entry.data # <<>>
    /\ Len(entry.answers) = 2
    /\ entry.answers[1].scalars # <<>> /\ NonEmpty(entry.answers[1].sAnswer)
    /\ NonEmpty(entry.answers[2].iAnswer)
    /\ row[<<"Q", "_", "value">>] = Element("i", 1)
    /\ row[<<"data", "_", "x">>] = <<"dx">>
    /\ Cardinality(Collisions(WriteOrder(entry))) >= 4

----------------------------------------------------------------------------
(* Timestamp localization: the step flatten_and_save, _flatten_and_save_roots *)
(* and _save_schedule run on the flattened table before it is written.      *)

TableRows == 2

MaxPasses == 2

MsPerSecond == 1000

\* US/Eastern against UTC at the epoch, in seconds
TzOffsetSeconds == 0 - 18000

\* a cell: an epoch number in ms, a text, or no value (null or key missing)
Num(n) == [kind |-> "num", v |-> n]

Str(n) == [kind |-> "str", v |-> n]

NaN == [kind |-> "nan", v |-> 0]

Cells == {Num(1500), Str(7), NaN}

ColumnNames == {<<"data", "_", "timeStamp">>, <<"timeStart">>, <<"x">>}

Tables == [ColumnNames -> [1 .. TableRows -> Cells]]

\* df[c].dtype for a column built from records: numbers, with or without
\* gaps, give a numeric dtype; a text in it, or no number at all, gives object
Dtype(col) ==
    IF \E j \in 1 .. Len(col) : col[j].kind = "str" THEN "object"
    ELSE IF \A j \in 1 .. Len(col) : col[j].kind = "nan" THEN "object"
    ELSE "numeric"

\* "timeStamp" in c, and for the schedule also timeStart and timeEnd
Markers(f) ==
    IF f = "_save_schedule" THEN {"timeStamp", "timeStart", "timeEnd"}
    ELSE {"timeStamp"}

HasMarker(f, name) == \E j \in 1 .. Len(name) : name[j] \in Markers(f)

ts_cols(f, t) ==
    {c \in DOMAIN t : HasMarker(f, c) /\ Dtype(t[c]) # "object"}

\* a conversion that shifts the number to local time and leaves it a number
Format_staysNumeric(cell) ==
    IF cell.kind = "num" THEN Num(cell.v + TzOffsetSeconds * MsPerSecond) ELSE cell

\* to_datetime(unit="ms", utc=True), tz_convert, strftime to the second; the
\* gaps are dropped by stack and come back as gaps from unstack
Format(cell) ==
    IF cell.kind = "num" THEN Str((cell.v \div MsPerSecond) + TzOffsetSeconds) ELSE cell

Localize(f, t) ==
    [c \in DOMAIN t |->
        IF c \in ts_cols(f, t) THEN [j \in 1 .. Len(t[c]) |-> Format(t[c][j])] ELSE t[c]]

InitTable ==
    /\ IdleExceptTable
    /\ table0 \in Tables
    /\ table = table0
    /\ passes = 0
    /\ localizedBy = "none"

LocalizeStep(f) ==
    /\ passes < MaxPasses
    /\ localizedBy \in {"none", f}
    /\ table' = Localize(f, table)
    /\ passes' = passes + 1
    /\ localizedBy' = f
    /\ UNCHANGED <<table0, exceptTable>>

flatten_and_save == LocalizeStep("flatten_and_save")

_flatten_and_save_roots == LocalizeStep("_flatten_and_save_roots")

_save_schedule == LocalizeStep("_save_schedule")

NextTable ==
    \/ flatten_and_save
    \/ _flatten_and_save_roots
    \/ _save_schedule

SpecTable == InitTable /\ [][NextTable]_vars

\* C14: on a localized table the localization step changes nothing, and the
\* step leaves every column unchanged that lacks the marker in its name or
\* whose values are not numeric.
C14_LocalizationIdempotent ==
    passes >= 1
    => /\ Localize(localizedBy, table) = table
       /\ passes > 1 => table = Localize(localizedBy, table0)
       /\ \A c \in ColumnNames :
            c \notin ts_cols(localizedBy, table0) => table[c] = table0[c]

\* two passes of the schedule step over a table with a numeric timeStart
\* column with a gap, a numeric timeStamp column and a numeric column x
C14_Witness ==
    /\ passes = 2
    /\ localizedBy = "_save_schedule"
    /\ table0[<<"timeStart">>] = <<Num(1500), NaN>>
    /\ table[<<"timeStart">>] = <<Str(1 + TzOffsetSeconds), NaN>>
    /\ table0[<<"data", "_", "timeStamp">>] = <<Num(1500), Num(1500)>>
    /\ table[<<"data", "_", "timeStamp">>][1].kind = "str"
    /\ table0[<<"x">>] = <<Num(1500), Num(1500)>>
    /\ table[<<"x">>] = table0[<<"x">>]

----------------------------------------------------------------------------
(* Cleaning a fetched schedule record (merge_and_push_schedule._clean).  A  *)
(* record maps keys to values; a value has a kind and its text as pieces.   *)

MaxTextLen == 3

_WHITELIST ==
    {"startTime", "endTime", "scheduledTime", "itemId", "beepId", "localId",
     "expirationInterval", "reminderIntervals", "randomizationScheme"}

Text(s) == [kind |-> "str", v |-> s]

IntValue == [kind |-> "int", v |-> <<"1">>]

FloatValue == [kind |-> "float", v |-> <<"1", ".", "5">>]

FloatNaN == [kind |-> "float", v |-> <<"nan">>]

NoneValue == [kind |-> "none", v |-> <<>>]

ListValue(body) == [kind |-> "list", v |-> body]

NoKey == [kind |-> "no key", v |-> <<>>]

TextPieces == {"[", "]", "1", ",", "x"}

Texts == UNION {[1 .. n -> TextPieces] : n \in 1 .. MaxTextLen}

\* json.loads accepts s: a number, or an array of values separated by commas
RECURSIVE IsJsonValue(_)
RECURSIVE IsJsonElements(_)
IsJsonValue(s) ==
    \/ (s # <<>> /\ \A j \in 1 .. Len(s) : s[j] = "1")
    \/ /\ Len(s) >= 2 /\ s[1] = "[" /\ s[Len(s)] = "]"
       /\ \/ Len(s) = 2
          \/ IsJsonElements(SubSeq(s, 2, Len(s) - 1))

IsJsonElements(s) ==
    \/ IsJsonValue(s)
    \/ \E j \in 2 .. (Len(s) - 1) :
            /\ s[j] = ","
            /\ IsJsonValue(SubSeq(s, 1, j - 1))
            /\ IsJsonElements(SubSeq(s, j + 1, Len(s)))

\* isinstance(v, str) and v.startswith('[') and v.endswith(']')
Bracketed(v) ==
    v.kind = "str" /\ v.v # <<>> /\ v.v[1] = "[" /\ v.v[Len(v.v)] = "]"

\* a cleaning that replaces a bracketed text that does not parse by no list
Normalize_failsToEmpty(v) ==
    IF Bracketed(v)
    THEN (IF IsJsonValue(v.v) THEN ListValue(SubSeq(v.v, 2, Len(v.v) - 1)) ELSE ListValue(<<>>))
    ELSE v

\* try: v = json.loads(v); except Exception: pass
Normalize(v) ==
    IF Bracketed(v) /\ IsJsonValue(v.v)
    THEN ListValue(SubSeq(v.v, 2, Len(v.v) - 1))
    ELSE v

\* isinstance(v, float) and math.isnan(v)
IsFloatNaN(v) == v.kind = "float" /\ v.v = <<"nan">>

RecordKeys == <<"startTime", "beepId", "reminderIntervals", "timeStamp">>

\* rec.items(), in dict order
RECURSIVE ItemsOf(_, _)
ItemsOf(r, keys) ==
    IF keys = <<>> THEN <<>>
    ELSE (IF Head(keys) \in DOMAIN r THEN << <<Head(keys), r[Head(keys)]>> >> ELSE <<>>)
         \o ItemsOf(r, Tail(keys))

RECURSIVE CleanItems(_, _)
CleanItems(items, out) ==
    IF items = <<>> THEN out
    ELSE IF Head(items)[1] \notin _WHITELIST THEN CleanItems(Tail(items), out)
    ELSE IF IsFloatNaN(Head(items)[2]) THEN CleanItems(Tail(items), out)
    ELSE CleanItems(Tail(items), Write(out, Head(items)[1], Normalize(Head(items)[2])))

_clean(r) == CleanItems(ItemsOf(r, RecordKeys), EmptyRec)

\* the record with the keys that have a value
Present(f) == [k \in {x \in DOMAIN f : f[x] # NoKey} |-> f[k]]

RemoteRecords ==
    {Present([startTime |-> st, beepId |-> b, reminderIntervals |-> ri, timeStamp |-> ts]) :
        st \in {NoKey, Text(<<"x">>), FloatNaN, NoneValue},
        b \in {NoKey, IntValue, FloatValue},
        ri \in {NoKey, FloatNaN, ListValue(<<"1">>)} \cup {Text(t) : t \in Texts},
        ts \in {NoKey, IntValue, FloatNaN}}

InitClean ==
    /\ IdleExceptClean
    /\ remoteRec \in RemoteRecords
    /\ cleaned = <<>>
    /\ cleanDone = FALSE

\* merge_and_push cleans one fetched record
clean_record ==
    /\ ~cleanDone
    /\ cleaned' = _clean(remoteRec)
    /\ cleanDone' = TRUE
    /\ UNCHANGED <<remoteRec, exceptClean>>

NextClean == clean_record

SpecClean == InitClean /\ [][NextClean]_vars

KeptKeys ==
    {k \in DOMAIN remoteRec : k \in _WHITELIST /\ ~IsFloatNaN(remoteRec[k])}

CleanedAsStated ==
    cleanDone
    => /\ DOMAIN cleaned = KeptKeys
       /\ \A k \in KeptKeys :
            IF Bracketed(remoteRec[k]) /\ IsJsonValue(remoteRec[k].v)
            THEN cleaned[k].kind = "list"
                 /\ cleaned[k].v = SubSeq(remoteRec[k].v, 2, Len(remoteRec[k].v) - 1)
            ELSE cleaned[k] = remoteRec[k]

\* C16: clean(r) has exactly the whitelisted keys of r whose value is not a
\* floating-point NaN; a kept value is the original, except that a text that
\* starts with "[" and ends with "]" is replaced by its parsed list when it
\* parses and kept when it does not; the call always returns and r is not
\* modified.
C16_CleanKeepsWhitelisted ==
    [](CleanedAsStated) /\ [][remoteRec' = remoteRec]_vars

\* a NaN start time, a key outside the whitelist and a bracketed text that
\* does not parse
C16_Witness ==
    /\ cleanDone
    /\ DOMAIN remoteRec = {"startTime", "beepId", "reminderIntervals", "timeStamp"}
    /\ remoteRec["startTime"] = FloatNaN
    /\ remoteRec["beepId"] = FloatValue
    /\ remoteRec["reminderIntervals"] = Text(<<"[", "x", "]">>)
    /\ DOMAIN cleaned = {"beepId", "reminderIntervals"}
    /\ cleaned["reminderIntervals"] = Text(<<"[", "x", "]">>)

\* a bracketed text that parses
C16_WitnessParsed ==
    /\ cleanDone
    /\ "reminderIntervals" \in DOMAIN remoteRec
    /\ remoteRec["reminderIntervals"] = Text(<<"[", "1", "]">>)
    /\ cleaned["reminderIntervals"] = ListValue(<<"1">>)

----------------------------------------------------------------------------
(* Reconciling the fetched schedule with new entries (merge_and_push): the  *)
(* cleaned records followed by the new entries go to _push_schedule.        *)

MaxRemote == 2

MaxNew == 2

\* an entry as build_entries makes it, reduced to the keys of the records
NewEntry(st) == [startTime |-> Text(st), beepId |-> IntValue]

\* fetched records: one that cleans to a new entry, one with a NaN, a key
\* outside the whitelist and a bracketed text, and one that cleans to nothing
FetchedRecords ==
    {Present([startTime |-> Text(<<"x">>), beepId |-> IntValue,
              reminderIntervals |-> NoKey, timeStamp |-> IntValue]),
     Present([startTime |-> FloatNaN, beepId |-> FloatValue,
              reminderIntervals |-> Text(<<"[", "1", "]">>), timeStamp |-> IntValue]),
     Present([startTime |-> FloatNaN, beepId |-> NoKey,
              reminderIntervals |-> NoKey, timeStamp |-> FloatNaN])}

NewEntries == {NewEntry(<<"x">>), NewEntry(<<"1">>)}

\* a merge that leaves out a new entry equal to a cleaned record
Reconcile_deduplicated(R, N) ==
    [i \in 1 .. Len(R) |-> _clean(R[i])]
        \o SelectSeq(N, LAMBDA e : \A i \in 1 .. Len(R) : _clean(R[i]) # e)

\* current = [_clean(r) for r in fetched]; current + new_entries
Reconcile(R, N) == [i \in 1 .. Len(R) |-> _clean(R[i])] \o N

InitMerge ==
    /\ IdleExceptMerge
    /\ remote \in UNION {[1 .. n -> FetchedRecords] : n \in 0 .. MaxRemote}
    /\ newEntries \in UNION {[1 .. n -> NewEntries] : n \in 0 .. MaxNew}
    /\ payload = <<>>
    /\ merged = FALSE

reconcile ==
    /\ ~merged
    /\ payload' = Reconcile(remote, newEntries)
    /\ merged' = TRUE
    /\ UNCHANGED <<remote, newEntries, exceptMerge>>

NextMerge == reconcile

SpecMerge == InitMerge /\ [][NextMerge]_vars

\* C15: the sequence handed over for upload is clean(R[0]), ..., clean(R[n-1])
\* followed by N[0], ..., N[m-1]: its length is len(R) + len(N), the records
\* keep their order, and no entry is dropped, duplicated or deduplicated.
C15_CleanedRemoteThenNew ==
    merged
    => /\ Len(payload) = Len(remote) + Len(newEntries)
       /\ \A i \in 1 .. Len(remote) : payload[i] = _clean(remote[i])
       /\ \A j \in 1 .. Len(newEntries) : payload[Len(remote) + j] = newEntries[j]

\* two records, the first cleaning to the new entry that is given twice
C15_Witness ==
    /\ merged
    /\ Len(remote) = 2 /\ Len(newEntries) = 2
    /\ _clean(remote[1]) = newEntries[1]
    /\ newEntries[1] = newEntries[2]
    /\ remote[1] # remote[2]
    /\ Len(payload) = 4
    /\ payload[1] = payload[3] /\ payload[3] = payload[4]

----------------------------------------------------------------------------
(* Building new schedule entries (merge_and_push_schedule.build_entries).   *)
(* An optional argument is a set: {} for None, {x} for the value x.         *)

MaxStarts == 2

MaxLabels == 3

None == {}

Some(x) == {x}

The(o) == CHOOSE x \in o : TRUE

\* `if et:` for an optional text
Truthy(o) == o # None /\ The(o) # ""

\* `if reminder_intervals:` for an optional list
TruthyList(o) == o # None /\ The(o) # <<>>

StartsOf(n) == [i \in 1 .. n |-> "t" \o ToString(i)]

EndValues == {None, Some(""), Some("e")}

LabelsOf(n) == [i \in 1 .. n |-> <<"label", ToString(i)>>]

BuildArgs ==
    [starts : {StartsOf(n) : n \in 0 .. MaxStarts},
     ends : UNION {[1 .. n -> EndValues] : n \in 0 .. MaxStarts},
     item_id : {"item"},
     labels : {None} \cup {Some(LabelsOf(n)) : n \in 0 .. MaxLabels},
     expiration_interval : {None, Some(0), Some(30)},
     reminder_intervals : {None, Some(<<>>), Some(<<5>>), Some(<<5, 10>>)},
     randomization_scheme : {0, 1}]

NoError == [exc |-> "none", msg |-> "", index |-> None]

\* raise ValueError(msg): the message is a fixed text and names no index
ValueError(msg) == [exc |-> "ValueError", msg |-> msg, index |-> None]

\* a check that lets a call through whose ends are the longer list
LengthMismatch_endsShorter(a) == Len(a.starts) > Len(a.ends)

\* len(starts) != len(ends)
LengthMismatch(a) == Len(a.starts) # Len(a.ends)

\* padding that numbers an automatic label by its position in the list
RECURSIVE PadLabels_byPosition(_, _, _)
PadLabels_byPosition(labels, n, k) ==
    IF Len(labels) >= n THEN labels
    ELSE PadLabels_byPosition(Append(labels, <<"auto_", ToString(Len(labels) + 1)>>), n, k + 1)

\* gen = count(1); while len(labels) < len(starts): labels.append(auto_<next>)
RECURSIVE PadLabels(_, _, _)
PadLabels(labels, n, k) ==
    IF Len(labels) >= n THEN labels
    ELSE PadLabels(Append(labels, <<"auto_", ToString(k)>>), n, k + 1)

\* an entry that carries reminderIntervals whenever the argument is not None
BuildEntry_remindersWhenGiven(a, st, et, lid) ==
    [startTime |-> st, scheduledTime |-> st, itemId |-> a.item_id, beepId |-> 0,
     localId |-> lid, randomizationScheme |-> a.randomization_scheme]
        @@ (IF Truthy(et) THEN "endTime" :> The(et)
            ELSE "expirationInterval" :> The(a.expiration_interval))
        @@ (IF a.reminder_intervals # None
            THEN "reminderIntervals" :> The(a.reminder_intervals)
            ELSE <<>>)

\* the entry e of one loop pass that does not raise
BuildEntry(a, st, et, lid) ==
    [startTime |-> st, scheduledTime |-> st, itemId |-> a.item_id, beepId |-> 0,
     localId |-> lid, randomizationScheme |-> a.randomization_scheme]
        @@ (IF Truthy(et) THEN "endTime" :> The(et)
            ELSE "expirationInterval" :> The(a.expiration_interval))
        @@ (IF TruthyList(a.reminder_intervals)
            THEN "reminderIntervals" :> The(a.reminder_intervals)
            ELSE <<>>)

\* et is falsy and expiration_interval is None
NoEndCondition(a, et) == ~Truthy(et) /\ a.expiration_interval = None

\* number of triples zip(starts, ends, labels) yields
ZipLen == Min(Len(buildArgs.starts), Min(Len(buildArgs.ends), Len(buildLabels)))

InitBuild ==
    /\ IdleExceptBuild
    /\ buildArgs \in BuildArgs
    /\ buildPc = "start"
    /\ buildLabels = <<>>
    /\ buildIdx = 0
    /\ buildNew = <<>>
    /\ buildResult = <<>>
    /\ buildError = NoError

\* lines 125-133: the length check, then the label list
build_entries_check ==
    /\ buildPc = "start"
    /\ IF LengthMismatch(buildArgs)
       THEN /\ buildPc' = "raised"
            /\ buildError' = ValueError("starts and ends length mismatch")
            /\ UNCHANGED <<buildLabels, buildIdx>>
       ELSE /\ buildPc' = "loop"
            /\ buildLabels' = PadLabels(IF buildArgs.labels = None THEN <<>>
                                        ELSE The(buildArgs.labels),
                                        Len(buildArgs.starts), 1)
            /\ buildIdx' = 1
            /\ UNCHANGED buildError
    /\ UNCHANGED <<buildArgs, buildNew, buildResult, exceptBuild>>

\* lines 134-153: one pass of the loop
build_entries_pass ==
    /\ buildPc = "loop"
    /\ buildIdx <= ZipLen
    /\ IF NoEndCondition(buildArgs, buildArgs.ends[buildIdx])
       THEN /\ buildPc' = "raised"
            /\ buildError' = ValueError("Need endTime or expiration_interval.")
            /\ UNCHANGED <<buildIdx, buildNew>>
       ELSE /\ buildNew' = Append(buildNew,
                                  BuildEntry(buildArgs, buildArgs.starts[buildIdx],
                                             buildArgs.ends[buildIdx], buildLabels[buildIdx]))
            /\ buildIdx' = buildIdx + 1
            /\ UNCHANGED <<buildPc, buildError>>
    /\ UNCHANGED <<buildArgs, buildLabels, buildResult, exceptBuild>>

\* line 154: return new
build_entries_return ==
    /\ buildPc = "loop"
    /\ buildIdx > ZipLen
    /\ buildPc' = "returned"
    /\ buildResult' = buildNew
    /\ UNCHANGED <<buildArgs, buildLabels, buildIdx, buildNew, buildError, exceptBuild>>

NextBuild ==
    \/ build_entries_check
    \/ build_entries_pass
    \/ build_entries_return

SpecBuild == InitBuild /\ [][NextBuild]_vars

BuildEnded == buildPc \in {"returned", "raised"}

GivenLabels == IF buildArgs.labels = None THEN <<>> ELSE The(buildArgs.labels)

\* C17: a call whose starts and ends differ in length fails with the
\* length-mismatch ValueError before any entry is built, whatever the labels,
\* the expiration interval and the reminder intervals are.
C17_LengthMismatchFailsFirst ==
    (buildPc # "start" /\ Len(buildArgs.starts) # Len(buildArgs.ends))
    => /\ buildPc = "raised"
       /\ buildError = ValueError("starts and ends length mismatch")
       /\ buildNew = <<>> /\ buildIdx = 0 /\ buildResult = <<>>

\* ends longer than starts, with labels, an expiration interval and reminders
C17_Witness ==
    /\ buildPc = "raised"
    /\ Len(buildArgs.starts) = 1 /\ Len(buildArgs.ends) = 2
    /\ buildArgs.labels = Some(LabelsOf(3))
    /\ buildArgs.expiration_interval = Some(30)
    /\ buildArgs.reminder_intervals = Some(<<5, 10>>)
    /\ buildError.msg = "starts and ends length mismatch"
    /\ buildNew = <<>>

\* the positions, counted from 0, whose end time is None or empty
MissingEnds ==
    {i \in 0 .. (Len(buildArgs.ends) - 1) : ~Truthy(buildArgs.ends[i + 1])}

FirstMissingEnd == CHOOSE i \in MissingEnds : \A j \in MissingEnds : i <= j

MissingEndCase ==
    /\ Len(buildArgs.starts) = Len(buildArgs.ends)
    /\ buildArgs.expiration_interval = None
    /\ MissingEnds # {}

\* C18: when some ends[i] is None or empty and no expiration interval is given,
\* the call fails with a failure that names the index i, and no entry list
\* reaches the caller.
C18_MissingEndNamesIndex ==
    (BuildEnded /\ MissingEndCase)
    => /\ buildPc = "raised"
       /\ buildError.exc = "ValueError"
       /\ buildError.index = Some(FirstMissingEnd)
       /\ buildResult = <<>>

\* the part of C18 that holds: the call fails at the first such index, and
\* the entries built before it are not returned
MissingEndFailsWithoutResult ==
    (BuildEnded /\ MissingEndCase)
    => /\ buildPc = "raised"
       /\ buildError = ValueError("Need endTime or expiration_interval.")
       /\ Len(buildNew) = FirstMissingEnd
       /\ buildResult = <<>>

EntryKeys ==
    {"startTime", "scheduledTime", "itemId", "beepId", "localId",
     "randomizationScheme", "endTime", "expirationInterval", "reminderIntervals"}

EntryAsStated(e, i) ==
    /\ DOMAIN e \subseteq EntryKeys
    /\ e["startTime"] = buildArgs.starts[i]
    /\ e["scheduledTime"] = buildArgs.starts[i]
    /\ e["itemId"] = buildArgs.item_id
    /\ e["beepId"] = 0
    /\ e["randomizationScheme"] = buildArgs.randomization_scheme
    /\ ("endTime" \in DOMAIN e) # ("expirationInterval" \in DOMAIN e)
    /\ IF Truthy(buildArgs.ends[i])
       THEN "endTime" \in DOMAIN e /\ e["endTime"] = The(buildArgs.ends[i])
       ELSE /\ "expirationInterval" \in DOMAIN e
            /\ e["expirationInterval"] = The(buildArgs.expiration_interval)
    /\ ("reminderIntervals" \in DOMAIN e)
            <=> (buildArgs.reminder_intervals \notin {None, Some(<<>>)})
    /\ "reminderIntervals" \in DOMAIN e
            => e["reminderIntervals"] = The(buildArgs.reminder_intervals)

\* C19: a call that returns delivers len(starts) entries in start order;
\* entry i has startTime = scheduledTime = starts[i], the item id, beepId 0,
\* the given randomization scheme, exactly one of endTime (= ends[i], when that
\* is non-empty) and expirationInterval, and reminderIntervals exactly when a
\* non-empty reminder list was given.
C19_EntriesAsBuilt ==
    buildPc = "returned"
    => /\ Len(buildResult) = Len(buildArgs.starts)
       /\ \A i \in 1 .. Len(buildResult) : EntryAsStated(buildResult[i], i)

\* one entry with an end time, one with the expiration interval 0, reminders
C19_Witness ==
    /\ buildPc = "returned"
    /\ buildArgs.ends = <<Some("e"), Some("")>>
    /\ buildArgs.expiration_interval = Some(0)
    /\ buildArgs.reminder_intervals = Some(<<5, 10>>)
    /\ Len(buildResult) = 2
    /\ "endTime" \in DOMAIN buildResult[1]
    /\ "expirationInterval" \notin DOMAIN buildResult[1]
    /\ buildResult[2]["expirationInterval"] = 0
    /\ buildResult[2]["reminderIntervals"] = <<5, 10>>

\* an empty reminder list leaves reminderIntervals out
C19_WitnessNoReminders ==
    /\ buildPc = "returned"
    /\ buildArgs.reminder_intervals = Some(<<>>)
    /\ Len(buildResult) = 2
    /\ "reminderIntervals" \notin DOMAIN buildResult[1]

\* C20: entry i of the result has localId = labels[i] when i < len(labels),
\* else auto_k with k = i - len(labels) + 1, counted from 1 within the call;
\* labels beyond len(starts) are ignored.
C20_LocalIds ==
    buildPc = "returned"
    => /\ Len(buildResult) = Len(buildArgs.starts)
       /\ \A i \in 1 .. Len(buildResult) :
            buildResult[i]["localId"] =
                IF i <= Len(GivenLabels) THEN GivenLabels[i]
                ELSE <<"auto_", ToString(i - Len(GivenLabels))>>

\* one label for two starts: the second entry is auto_1
C20_Witness ==
    /\ buildPc = "returned"
    /\ Len(buildArgs.starts) = 2
    /\ buildArgs.labels = Some(LabelsOf(1))
    /\ buildResult[1]["localId"] = <<"label", "1">>
    /\ buildResult[2]["localId"] = <<"auto_", "1">>

\* three labels for two starts: the third label is not used
C20_WitnessSpareLabel ==
    /\ buildPc = "returned"
    /\ Len(buildArgs.starts) = 2
    /\ buildArgs.labels = Some(LabelsOf(3))
    /\ Len(buildResult) = 2
    /\ buildResult[2]["localId"] = <<"label", "2">>

----------------------------------------------------------------------------
(* The ordered-serialization variant (schedule_json_builder).  A source     *)
(* entry is a list of <<key, value>> in its own key order; an output entry  *)
(* is the OrderedDict as the list of its items.  A time text is made of the *)
(* pieces "D" (the date), "T", " ", "H" (the clock time), "+", "-", "Z" and *)
(* "O" (the digits of an offset).                                           *)

MaxFuture == 2

MaxNewBeeps == 1

DefaultOrder ==
    <<"itemId", "localId", "endTime", "startTime",
      "beepId", "scheduledTime", "reminderIntervals", "randomizationScheme">>

DefaultTimeKeys == {"startTime", "endTime", "scheduledTime"}

Zero == [kind |-> "int", v |-> <<"0">>]

Timestamp == [kind |-> "timestamp", v |-> <<"D", "H", "+", "O">>]

\* pd.isna(v) for a scalar
IsNa(v) == v.kind \in {"none", "no key"} \/ IsFloatNaN(v)

\* s.replace("T", " ")
ReplaceT(s) == [j \in 1 .. Len(s) |-> IF s[j] = "T" THEN " " ELSE s[j]]

\* s.split("+")[0]
RECURSIVE BeforePlus(_)
BeforePlus(s) ==
    IF s = <<>> \/ Head(s) = "+" THEN <<>>
    ELSE <<Head(s)>> \o BeforePlus(Tail(s))

_fmt_time(v) ==
    IF IsNa(v) THEN NoneValue
    ELSE IF v.kind = "timestamp" THEN Text(<<"D", " ", "H">>)
    ELSE Text(BeforePlus(ReplaceT(v.v)))

\* the number of elements of a list with the given body
ListLen(body) ==
    IF body = <<>> THEN 0
    ELSE 1 + Cardinality({j \in 1 .. Len(body) : body[j] = ","})

\* list(v) for a text v: its characters, each a one-character text
RECURSIVE Characters(_)
Characters(s) ==
    IF s = <<>> THEN <<>>
    ELSE IF Len(s) = 1 THEN <<"'", Head(s), "'">>
    ELSE <<"'", Head(s), "'", ",">> \o Characters(Tail(s))

\* `... or pd.isna(v)` on a list of two or more elements: pd.isna returns an
\* array, whose truth value raises ValueError
FixRemindersRaises(v) == v.kind = "list" /\ ListLen(v.v) >= 2

\* the value _fix_reminders returns when it does not raise
_fix_reminders(v) ==
    IF v.kind \in {"none", "no key"} \/ (v.kind = "list" /\ v.v = <<>>) \/ IsFloatNaN(v)
    THEN NoneValue
    ELSE IF v.kind = "str"
    THEN (IF ~IsJsonValue(v.v) THEN NoneValue
          ELSE IF Bracketed(v) THEN ListValue(SubSeq(v.v, 2, Len(v.v) - 1))
          ELSE ListValue(Characters(v.v)))
    ELSE IF v.kind = "list" THEN v
    ELSE NoneValue

\* `if ri:`
NonEmptyList(v) == v.kind = "list" /\ v.v # <<>>

\* f"{n:04d}"
Pad4(n) ==
    IF n < 10 THEN "000" \o ToString(n)
    ELSE IF n < 100 THEN "00" \o ToString(n)
    ELSE IF n < 1000 THEN "0" \o ToString(n)
    ELSE ToString(n)

\* `x or y` looks at the truth value of x
Falsy(v) == v.kind \in {"none", "no key"} \/ (v.kind = "str" /\ v.v = <<>>)

\* src.get(k)
SrcGet(src, k) == Get(src, k, NoneValue)

\* k in src
HasKey(src, k) == \E j \in 1 .. Len(src) : src[j][1] = k

\* a conversion that visits the keys in the order the source has them
KeysToVisit_sourceOrder(order, src) ==
    LET keys == [j \in 1 .. Len(src) |-> src[j][1]]
    IN  SelectSeq(keys, LAMBDA k : \E j \in 1 .. Len(order) : order[j] = k)

\* `for k in ORDER`: the keys of the list, in its order
KeysToVisit(order, src) == order

\* a pass that keeps the beepId a source entry carries
ToApiDictKey_keepsBeepId(od, k, src, idx, time_keys) ==
    IF k = "beepId"
    THEN Append(od, <<k, IF HasKey(src, k) THEN SrcGet(src, k) ELSE Zero>>)
    ELSE IF k = "localId"
    THEN Append(od, <<k, IF Falsy(SrcGet(src, k))
                         THEN Text(<<"auto_", Pad4(idx + 1)>>)
                         ELSE SrcGet(src, k)>>)
    ELSE IF k = "reminderIntervals"
    THEN (IF NonEmptyList(_fix_reminders(SrcGet(src, k)))
          THEN Append(od, <<k, _fix_reminders(SrcGet(src, k))>>)
          ELSE od)
    ELSE IF HasKey(src, k) /\ ~IsNa(SrcGet(src, k))
    THEN Append(od, <<k, IF k \in time_keys THEN _fmt_time(SrcGet(src, k))
                         ELSE SrcGet(src, k)>>)
    ELSE od

\* one pass of the loop `for k in ORDER` of _to_api_dict on the key k, with
\* the time keys as they are when the pass runs
ToApiDictKey(od, k, src, idx, time_keys) ==
    IF k = "beepId" THEN Append(od, <<k, Zero>>)
    ELSE IF k = "localId"
    THEN Append(od, <<k, IF Falsy(SrcGet(src, k))
                         THEN Text(<<"auto_", Pad4(idx + 1)>>)
                         ELSE SrcGet(src, k)>>)
    ELSE IF k = "reminderIntervals"
    THEN (IF NonEmptyList(_fix_reminders(SrcGet(src, k)))
          THEN Append(od, <<k, _fix_reminders(SrcGet(src, k))>>)
          ELSE od)
    ELSE IF HasKey(src, k) /\ ~IsNa(SrcGet(src, k))
    THEN Append(od, <<k, IF k \in time_keys THEN _fmt_time(SrcGet(src, k))
                         ELSE SrcGet(src, k)>>)
    ELSE od

\* the pass on the key k raises
ToApiDictKeyRaises(k, src) ==
    k = "reminderIntervals" /\ FixRemindersRaises(SrcGet(src, k))

\* _to_api_dict run without interruption under the given ORDER and TIME_KEYS
RECURSIVE ToApiDictKeys(_, _, _, _, _)
ToApiDictKeys(keys, od, src, idx, time_keys) ==
    IF keys = <<>> THEN od
    ELSE ToApiDictKeys(Tail(keys), ToApiDictKey(od, Head(keys), src, idx, time_keys),
                       src, idx, time_keys)

_to_api_dict(src, idx, order, time_keys) ==
    ToApiDictKeys(KeysToVisit(order, src), <<>>, src, idx, time_keys)

DateTimeTexts ==
    {<<"D", "T", "H">>, <<"D", "T", "H", "+", "O">>, <<"D", "T", "H", "-", "O">>,
     <<"D", "T", "H", "Z">>, <<"D", " ", "H">>}

\* rows of the table of future entries, with the columns in the order of the
\* fetched schedule; a cell without a value holds NaN
FutureRows ==
    { << <<"beepId", IntValue>>, <<"startTime", Text(<<"D", "T", "H", "+", "O">>)>>,
         <<"endTime", Text(<<"D", "T", "H", "-", "O">>)>>,
         <<"scheduledTime", Text(<<"D", "T", "H", "Z">>)>>,
         <<"itemId", Text(<<"item">>)>>, <<"localId", Text(<<"lab">>)>>,
         <<"expirationInterval", FloatNaN>>,
         <<"reminderIntervals", Text(<<"[", "1", "]">>)>>,
         <<"randomizationScheme", Zero>> >>,
      << <<"beepId", IntValue>>, <<"startTime", Timestamp>>,
         <<"endTime", FloatNaN>>, <<"scheduledTime", Text(<<"D", "T", "H">>)>>,
         <<"itemId", Text(<<"item">>)>>, <<"localId", NoneValue>>,
         <<"expirationInterval", IntValue>>,
         <<"reminderIntervals", FloatNaN>>,
         <<"randomizationScheme", Zero>> >>,
      << <<"beepId", IntValue>>, <<"startTime", Text(<<"D", " ", "H">>)>>,
         <<"endTime", Text(<<"D", "T", "H">>)>>, <<"scheduledTime", FloatNaN>>,
         <<"itemId", Text(<<"item">>)>>, <<"localId", Text(<<>>)>>,
         <<"expirationInterval", FloatNaN>>,
         <<"reminderIntervals", Text(<<"1">>)>>,
         <<"randomizationScheme", Zero>> >> }

\* a dict as build_entries makes it, in the key order of build_entries
AsBuilt(st, lid, ends, ri) ==
    << <<"startTime", Text(st)>>, <<"scheduledTime", Text(st)>>,
       <<"itemId", Text(<<"item">>)>>, <<"beepId", Zero>>, <<"localId", Text(lid)>>,
       <<"randomizationScheme", Zero>> >> \o ends \o ri

NewBeeps ==
    { AsBuilt(<<"D", " ", "H">>, <<"auto_1">>,
              << <<"endTime", Text(<<"D", "T", "H", "+", "O">>)>> >>,
              << <<"reminderIntervals", ListValue(<<"1">>)>> >>),
      AsBuilt(<<"D", "T", "H">>, <<"lab">>,
              << <<"expirationInterval", IntValue>> >>, <<>>),
      AsBuilt(<<"D", " ", "H">>, <<"auto_1">>,
              << <<"endTime", Text(<<"D", " ", "H">>)>> >>,
              << <<"reminderIntervals", ListValue(<<"1", ",", "1">>)>> >>) }

\* an order a caller passes instead of the default
OtherOrder == <<"startTime", "itemId", "expirationInterval">>

Orders == {DefaultOrder, OtherOrder}

TimeKeySets == {DefaultTimeKeys, {}}

Callers == {1, 2}

CallArgs ==
    [df_future : UNION {[1 .. n -> FutureRows] : n \in 0 .. MaxFuture},
     new_beeps : UNION {[1 .. n -> NewBeeps] : n \in 0 .. MaxNewBeeps},
     order : Orders, time_keys : TimeKeySets]

NoCall == [df_future |-> <<>>, new_beeps |-> <<>>,
           order |-> DefaultOrder, time_keys |-> DefaultTimeKeys]

NoFrame == [keys |-> <<>>, od |-> <<>>]

\* the rows and dicts a call converts, in the order it converts them
SourcesOf(c) == calls[c].df_future \o calls[c].new_beeps

\* the module as imported, and one call about to run
InitCombine ==
    /\ IdleExceptCombine
    /\ ORDER = DefaultOrder
    /\ TIME_KEYS = DefaultTimeKeys
    /\ \E a \in CallArgs : calls = [c \in Callers |-> IF c = 1 THEN a ELSE NoCall]
    /\ callPc = [c \in Callers |-> IF c = 1 THEN "start" ELSE "idle"]
    /\ callIdx = [c \in Callers |-> 0]
    /\ callFrame = [c \in Callers |-> NoFrame]
    /\ callOut = [c \in Callers |-> <<>>]
    /\ callResult = [c \in Callers |-> <<>>]
    /\ callError = [c \in Callers |-> "none"]

\* two threads about to call combine_entries, one with the defaults and one
\* with its own order and time keys
InitInterleaved ==
    /\ IdleExceptCombine
    /\ ORDER = DefaultOrder
    /\ TIME_KEYS = DefaultTimeKeys
    /\ \E a \in CallArgs, b \in CallArgs :
            /\ Len(a.df_future) + Len(a.new_beeps) = 1
            /\ a.order = DefaultOrder /\ a.time_keys = DefaultTimeKeys
            /\ Len(b.df_future) = 1 /\ b.new_beeps = <<>>
            /\ b.order = OtherOrder /\ b.time_keys = {}
            /\ calls = [c \in Callers |-> IF c = 1 THEN a ELSE b]
    /\ callPc = [c \in Callers |-> "start"]
    /\ callIdx = [c \in Callers |-> 0]
    /\ callFrame = [c \in Callers |-> NoFrame]
    /\ callOut = [c \in Callers |-> <<>>]
    /\ callResult = [c \in Callers |-> <<>>]
    /\ callError = [c \in Callers |-> "none"]

\* ORDER = order
combine_entries_order(c) ==
    /\ callPc[c] = "start"
    /\ ORDER' = calls[c].order
    /\ callPc' = [callPc EXCEPT ![c] = "order bound"]
    /\ UNCHANGED <<TIME_KEYS, calls, callIdx, callFrame, callOut, callResult, callError,
                   exceptCombine>>

\* TIME_KEYS = time_keys
combine_entries_time_keys(c) ==
    /\ callPc[c] = "order bound"
    /\ TIME_KEYS' = calls[c].time_keys
    /\ callPc' = [callPc EXCEPT ![c] = "entries"]
    /\ UNCHANGED <<ORDER, calls, callIdx, callFrame, callOut, callResult, callError,
                   exceptCombine>>

\* _to_api_dict is entered: `for k in ORDER` takes the list ORDER names now
_to_api_dict_enter(c) ==
    /\ callPc[c] = "entries"
    /\ callIdx[c] < Len(SourcesOf(c))
    /\ callFrame' = [callFrame EXCEPT ![c] =
            [keys |-> KeysToVisit(ORDER, SourcesOf(c)[callIdx[c] + 1]), od |-> <<>>]]
    /\ callPc' = [callPc EXCEPT ![c] = "keys"]
    /\ UNCHANGED <<ORDER, TIME_KEYS, calls, callIdx, callOut, callResult, callError,
                   exceptCombine>>

\* one pass of the loop over the keys
_to_api_dict_key(c) ==
    /\ callPc[c] = "keys"
    /\ callFrame[c].keys # <<>>
    /\ LET k == Head(callFrame[c].keys)
           src == SourcesOf(c)[callIdx[c] + 1]
       IN  IF ToApiDictKeyRaises(k, src)
           THEN /\ callPc' = [callPc EXCEPT ![c] = "raised"]
                /\ callError' = [callError EXCEPT ![c] = "ValueError"]
                /\ UNCHANGED callFrame
           ELSE /\ callFrame' = [callFrame EXCEPT ![c] =
                        [keys |-> Tail(callFrame[c].keys),
                         od |-> ToApiDictKey(callFrame[c].od, k, src, callIdx[c], TIME_KEYS)]]
                /\ UNCHANGED <<callPc, callError>>
    /\ UNCHANGED <<ORDER, TIME_KEYS, calls, callIdx, callOut, callResult, exceptCombine>>

\* return od: the entry joins the list being built
_to_api_dict_return(c) ==
    /\ callPc[c] = "keys"
    /\ callFrame[c].keys = <<>>
    /\ callOut' = [callOut EXCEPT ![c] = Append(callOut[c], callFrame[c].od)]
    /\ callIdx' = [callIdx EXCEPT ![c] = callIdx[c] + 1]
    /\ callFrame' = [callFrame EXCEPT ![c] = NoFrame]
    /\ callPc' = [callPc EXCEPT ![c] = "entries"]
    /\ UNCHANGED <<ORDER, TIME_KEYS, calls, callResult, callError, exceptCombine>>

\* return combined
combine_entries_return(c) ==
    /\ callPc[c] = "entries"
    /\ callIdx[c] = Len(SourcesOf(c))
    /\ callResult' = [callResult EXCEPT ![c] = callOut[c]]
    /\ callPc' = [callPc EXCEPT ![c] = "returned"]
    /\ UNCHANGED <<ORDER, TIME_KEYS, calls, callIdx, callFrame, callOut, callError,
                   exceptCombine>>

NextCombine ==
    \E c \in Callers :
        \/ combine_entries_order(c)
        \/ combine_entries_time_keys(c)
        \/ _to_api_dict_enter(c)
        \/ _to_api_dict_key(c)
        \/ _to_api_dict_return(c)
        \/ combine_entries_return(c)

\* one call at a time
SpecCombine == InitCombine /\ [][NextCombine]_vars

\* two calls in two threads
SpecInterleaved == InitInterleaved /\ [][NextCombine]_vars

KeysOf(od) == [j \in 1 .. Len(od) |-> od[j][1]]

PositionIn(order, k) == CHOOSE j \in 1 .. Len(order) : order[j] = k

\* the keys of od are keys of order and follow one another as they do there
InOrder(od, order) ==
    /\ \A j \in 1 .. Len(od) : \E i \in 1 .. Len(order) : order[i] = od[j][1]
    /\ \A i, j \in 1 .. Len(od) :
            i < j => PositionIn(order, od[i][1]) < PositionIn(order, od[j][1])

\* the call of c runs with the default order and time keys
DefaultCall(c) ==
    calls[c].order = DefaultOrder /\ calls[c].time_keys = DefaultTimeKeys

DisplayFormat == Text(<<"D", " ", "H">>)

\* the time field k of output entry i of c was given as an ISO-like text
GivenAsText(c, i, k) ==
    /\ HasKey(callResult[c][i], k)
    /\ SrcGet(SourcesOf(c)[i], k).kind = "str"
    /\ SrcGet(SourcesOf(c)[i], k).v \in DateTimeTexts

\* C23: every time-valued field (startTime, endTime, scheduledTime) given as
\* an ISO-like text is output with the 'T' replaced by a space and any
\* trailing UTC offset removed, for positive offsets, negative offsets and
\* the 'Z' suffix alike, leaving 'YYYY-MM-DD HH:MM:SS'.
C23_TimesInDisplayFormat ==
    \A c \in Callers :
        DefaultCall(c)
        => \A i \in 1 .. Len(callResult[c]) : \A k \in DefaultTimeKeys :
                GivenAsText(c, i, k) => SrcGet(callResult[c][i], k) = DisplayFormat

\* what holds: texts without an offset or with a '+' offset come out in the
\* display format, and a text with a '-' offset or a 'Z' keeps it
PlusOffsetsOnlyAreStripped ==
    \A c \in Callers :
        DefaultCall(c)
        => \A i \in 1 .. Len(callResult[c]) : \A k \in DefaultTimeKeys :
                GivenAsText(c, i, k)
                => LET given == SrcGet(SourcesOf(c)[i], k).v
                       out == SrcGet(callResult[c][i], k)
                   IN  /\ given \in {<<"D", "T", "H">>, <<"D", " ", "H">>,
                                     <<"D", "T", "H", "+", "O">>}
                            => out = DisplayFormat
                       /\ given = <<"D", "T", "H", "-", "O">>
                            => out = Text(<<"D", " ", "H", "-", "O">>)
                       /\ given = <<"D", "T", "H", "Z">>
                            => out = Text(<<"D", " ", "H", "Z">>)

\* what the call of c returns when nothing else runs during it
Alone(c) ==
    [i \in 1 .. Len(SourcesOf(c)) |->
        _to_api_dict(SourcesOf(c)[i], i - 1, calls[c].order, calls[c].time_keys)]

\* C24: interleaved combine_entries calls with different order / time_keys
\* arguments share no mutable state: the entries each call returns use that
\* call's own key order and time-key set, as if the call had run alone.
C24_CallsDoNotInterfere ==
    \A c \in Callers : callPc[c] = "returned" => callResult[c] = Alone(c)

\* a call with the default arguments returns an entry in the other call's order
DefaultCallUsesOtherOrder ==
    /\ callPc[1] = "returned" /\ callPc[2] = "returned"
    /\ Len(callResult[1]) = 1
    /\ KeysOf(callResult[1][1]) = OtherOrder

\* the entry e has an end time or an expiration interval
HasEndCondition(e) ==
    \E k \in {"endTime", "expirationInterval"} : HasKey(e, k) /\ ~IsNa(SrcGet(e, k))

\* C30: every entry combine_entries outputs keeps the end condition of its
\* source: when the source has an endTime or an expirationInterval, the output
\* entry carries at least one of the two.
C30_EndConditionKept ==
    \A c \in Callers :
        DefaultCall(c)
        => \A i \in 1 .. Len(callResult[c]) :
                HasEndCondition(SourcesOf(c)[i]) => HasEndCondition(callResult[c][i])

\* what holds: an end time is kept, an expiration interval never is
OnlyEndTimeKept ==
    \A c \in Callers :
        DefaultCall(c)
        => \A i \in 1 .. Len(callResult[c]) :
                /\ ~HasKey(callResult[c][i], "expirationInterval")
                /\ HasKey(callResult[c][i], "endTime")
                        <=> (HasKey(SourcesOf(c)[i], "endTime")
                                /\ ~IsNa(SrcGet(SourcesOf(c)[i], "endTime")))

----------------------------------------------------------------------------
(* The backoff of the interactions fetch, followed over a longer run: one   *)
(* call of _fetch_interactions with up to MaxRetries attempts.               *)

MaxRetries == 8

\* a network error, a reply still in processing, a success and a rejection
BackoffReplies ==
    {NetErr} \cup {[kind |-> "json", http |-> 200, status |-> st] : st \in {-1, 1, 0}}

\* _fetch_interactions(user_code, connection_id, retries) is entered
InitBackoff ==
    /\ pc = "run"
    /\ exec = "_fetch_interactions"
    /\ budget \in 1 .. MaxRetries
    /\ attempt = 1
    /\ variant = 1
    /\ requests = 0
    /\ discarded = 0
    /\ sleepLog = <<>>
    /\ backoff = InitialBackoff
    /\ mints = 0
    /\ tokens = <<>>
    /\ replies = <<>>
    /\ outcome = Pending
    /\ mp = "none"
    /\ IdleExceptExec

\* one pass of the loop `for attempt in range(1, retries + 1)`
_fetch_interactions_attempt ==
    /\ pc = "run" /\ exec = "_fetch_interactions"
    /\ \E r \in BackoffReplies :
         Send(TRUE) /\ Conclude(_fetch_interactions_reply(r, attempt, budget, backoff), r)
    /\ UNCHANGED <<exec, budget, discarded, mp, exceptExec>>

SpecBackoff == InitBackoff /\ [][_fetch_interactions_attempt]_vars

\* C25: the k-th sleep of one _fetch_interactions call, counting the sleeps
\* after network errors and after status -1 replies together, lasts
\* min(3 * 2^(k-1), 60) seconds.
C25_BackoffDoublesToCap ==
    exec = "_fetch_interactions"
    => \A k \in 1 .. Len(sleepLog) :
            sleepLog[k] = Min(InitialBackoff * 2 ^ (k - 1), BackoffCap)

\* seven sleeps after network errors and status -1 replies: 3, 6, 12, 24, 48,
\* then 60 twice
C25_Witness ==
    /\ exec = "_fetch_interactions"
    /\ sleepLog = <<3, 6, 12, 24, 48, 60, 60>>
    /\ \E i, j \in 1 .. 7 : replies[i] = NetErr /\ Transient(replies[j])
    /\ replies[6] = NetErr /\ Transient(replies[7])

----------------------------------------------------------------------------
(* The path column of the flattened tree, over trees whose nodes may lack   *)
(* a shortQuestion, an itemId, or both.                                      *)

MaxPathNodes == 4

\* the labels a node comes with: both, an itemId only, or neither
Labelled(n, t) ==
    {Node(n, t, "q"), Node(n, t, ""), [Node(n, t, "") EXCEPT !.itemId = ""]}

InitPath ==
    /\ IdleExceptTree
    /\ \E t \in TypeQuestions : tree \in Labelled(1, t)
    /\ treeSize = 1
    /\ flattened = FALSE
    /\ rows = <<>>
    /\ treeError = "none"

\* the next node of the reply, as a child of a node on the open chain
ReceiveLabelled ==
    /\ ~flattened
    /\ treeSize < MaxPathNodes
    /\ \E d \in 0 .. SpineDepth(tree), t \in TypeQuestions :
        \E node \in Labelled(treeSize + 1, t) : tree' = AddAt(tree, d, node)
    /\ treeSize' = treeSize + 1
    /\ UNCHANGED <<flattened, rows, treeError, exceptTree>>

NextPath ==
    \/ ReceiveLabelled
    \/ _questions_df

SpecPath == InitPath /\ [][NextPath]_vars

\* a node's label: its shortQuestion when that is non-empty, else its itemId
LabelOf(item) == IF item.shortQuestion = "" THEN item.itemId ELSE item.shortQuestion

\* for every leaf the flattening reaches, in depth-first order, the labels of
\* the containers from the root down to it, followed by its own
RECURSIVE LabelChains(_, _)
RECURSIVE LabelChainsOf(_, _, _)
LabelChains(item, above) ==
    IF item.typeQuestion = "container"
    THEN LabelChainsOf(item.items, 1, Append(above, LabelOf(item)))
    ELSE << Append(above, LabelOf(item)) >>

LabelChainsOf(items, i, above) ==
    IF i > Len(items) THEN <<>>
    ELSE LabelChains(items[i], above) \o LabelChainsOf(items, i + 1, above)

NonEmptyLabel(l) == l # ""

\* the labels with a "/" between each two
Slashed(labels) ==
    [j \in 1 .. (IF labels = <<>> THEN 0 ELSE 2 * Len(labels) - 1) |->
        IF j % 2 = 1 THEN labels[(j + 1) \div 2] ELSE "/"]

\* no empty segment, no separator at an end, no two separators in a row
WellFormedPath(path) ==
    /\ \A j \in 1 .. Len(path) : path[j] # ""
    /\ path # <<>> => (path[1] # "/" /\ path[Len(path)] # "/")
    /\ \A j \in 1 .. (Len(path) - 1) : ~(path[j] = "/" /\ path[j + 1] = "/")

\* C26: the path of each row is the '/'-join of the non-empty labels of the
\* containers from the root down to the leaf, followed by the leaf's own
\* label; a node's label is its shortQuestion when non-empty and otherwise its
\* itemId; a node with neither contributes no segment, and no empty segment
\* or doubled separator appears.
C26_PathIsJoinOfLabels ==
    flattened
    => LET chains == LabelChains(tree, <<>>)
       IN  /\ Len(rows) = Len(chains)
           /\ \A i \in 1 .. Len(rows) :
                /\ rows[i].path = Slashed(SelectSeq(chains[i], NonEmptyLabel))
                /\ WellFormedPath(rows[i].path)

\* a labelled root, an unlabelled container under it, and under that a leaf
\* with an itemId only and a leaf with a shortQuestion
C26_Witness ==
    /\ flattened
    /\ treeSize = 4
    /\ tree.typeQuestion = "container" /\ tree.shortQuestion = "q"
    /\ Len(tree.items) = 1
    /\ tree.items[1].typeQuestion = "container"
    /\ tree.items[1].shortQuestion = "" /\ tree.items[1].itemId = ""
    /\ Len(rows) = 2
    /\ rows[1].path = <<"q", "/", "3">>
    /\ rows[2].path = <<"q", "/", "q">>

\* a leaf with neither label under an unlabelled root: the empty path
C26_WitnessNoLabel ==
    /\ flattened
    /\ tree.typeQuestion = "container" /\ LabelOf(tree) = ""
    /\ Len(rows) = 1
    /\ rows[1].path = <<>>

----------------------------------------------------------------------------
(* Nested answers: an answer of a row with child answers under it, each     *)
(* carrying a key "id" of its own, flattened as flatten_rows does.           *)

MaxAnswerNodes == 4

\* the k-th answer block received: its id, and a shortQuestion or none
AnswerBlocks(k) ==
    {Answer(t, << <<(<<"id">>), <<"m", ToString(k)>> >> >>, bq, Absent, Absent, Absent, <<>>) :
        t \in TypeAnswers, bq \in {<<>>, ShortQuestion(<<"s", ToString(k)>>)}}

RECURSIVE AnswerSize(_)
RECURSIVE AnswerSizes(_, _)
AnswerSize(a) == 1 + AnswerSizes(a.cAnswer, 1)

AnswerSizes(children, i) ==
    IF i > Len(children) THEN 0
    ELSE AnswerSize(children[i]) + AnswerSizes(children, i + 1)

\* length of the chain answer, last child, last child of it, ...
RECURSIVE ChainDepth(_)
ChainDepth(a) ==
    IF a.cAnswer = <<>> THEN 0 ELSE 1 + ChainDepth(a.cAnswer[Len(a.cAnswer)])

\* a with child appended to the cAnswer of the answer d levels down that chain
RECURSIVE AddChildAt(_, _, _)
AddChildAt(a, d, child) ==
    IF d = 0
    THEN [a EXCEPT !.cAnswer = Append(@, child)]
    ELSE [a EXCEPT !.cAnswer[Len(a.cAnswer)] = AddChildAt(@, d - 1, child)]

\* sq = ans.get("basicQuestion", {}).get("shortQuestion", "Q"); prefix sq + "_"
RowPrefix(a) == Get(a.basicQuestion, <<"shortQuestion">>, <<"Q">>) \o <<"_">>

InitNested ==
    /\ IdleExceptAnswer
    /\ ans \in AnswerBlocks(1)
    /\ ansPrefix = RowPrefix(ans)
    /\ ansRec = EmptyRec
    /\ ansDone = FALSE

\* the next answer block of the reply, as a child of an answer on the open chain
ReceiveChild ==
    /\ ~ansDone
    /\ AnswerSize(ans) < MaxAnswerNodes
    /\ \E d \in 0 .. ChainDepth(ans), child \in AnswerBlocks(AnswerSize(ans) + 1) :
            ans' = AddChildAt(ans, d, child)
    /\ UNCHANGED <<ansPrefix, ansRec, ansDone, exceptAnswer>>

NextNested ==
    \/ ReceiveChild
    \/ flatten_answer

SpecNested == InitNested /\ [][NextNested]_vars

\* every answer block under a, in document order, with the short labels of
\* the chain from the row's answer down to it, each followed by "_" and an
\* absent label replaced by the placeholder, and with whether every answer
\* above it is a containerAnswer
RECURSIVE ChainOf(_, _, _)
RECURSIVE ChainsOf(_, _, _, _)
ChainOf(a, labels, reached) ==
    << [id |-> a.scalars[1][2], labels |-> labels, reached |-> reached, answer |-> a] >>
        \o ChainsOf(a.cAnswer, 1, labels, reached /\ a.typeAnswer = "containerAnswer")

ChainsOf(children, i, labels, reached) ==
    IF i > Len(children) THEN <<>>
    ELSE ChainOf(children[i],
                 labels \o Get(children[i].basicQuestion, <<"shortQuestion">>, <<"container">>)
                        \o <<"_">>,
                 reached)
         \o ChainsOf(children, i + 1, labels, reached)

AnswerChains == ChainOf(ans, RowPrefix(ans), TRUE)

\* the names of the columns an answer block writes, without the prefix
OwnColumns(a) ==
    {<<"typeAnswer">>, <<"id">>}
        \cup {<<"basicQuestion", "_">> \o a.basicQuestion[j][1] : j \in 1 .. Len(a.basicQuestion)}

\* C27: child answers are flattened only when the parent's typeAnswer is
\* containerAnswer; every column written for an answer at any nesting depth is
\* prefixed by the short labels of the answers on its chain, outermost first,
\* each followed by '_', an absent label replaced by the fixed placeholder;
\* child answers of a non-container answer contribute no column.
C27_ColumnsFollowTheChain ==
    ansDone
    => LET chains == AnswerChains
           written == {j \in 1 .. Len(chains) : chains[j].reached}
       IN  /\ DOMAIN ansRec =
                UNION {{chains[j].labels \o c : c \in OwnColumns(chains[j].answer)} :
                            j \in written}
           /\ \A j \in 1 .. Len(chains) :
                LET col == chains[j].labels \o <<"id">>
                IN  IF chains[j].reached
                    THEN \E k \in written :
                            chains[k].labels = chains[j].labels /\ ansRec[col] = chains[k].id
                    ELSE \A n \in DOMAIN ansRec : ansRec[n] # chains[j].id

\* a containerAnswer with a labelled containerAnswer under it, under that an
\* unlabelled answer, and a second child of the row's answer that is not a
\* container and carries a child
C27_Witness ==
    /\ ansDone
    /\ AnswerSize(ans) = 4
    /\ ans.typeAnswer = "containerAnswer" /\ ans.basicQuestion # <<>>
    /\ Len(ans.cAnswer) = 1
    /\ ans.cAnswer[1].typeAnswer = "containerAnswer" /\ ans.cAnswer[1].basicQuestion # <<>>
    /\ Len(ans.cAnswer[1].cAnswer) = 2
    /\ ans.cAnswer[1].cAnswer[1].basicQuestion = <<>>
    /\ <<"s", "1", "_", "s", "2", "_", "container", "_", "id">> \in DOMAIN ansRec
    /\ ansRec[<<"s", "1", "_", "s", "2", "_", "container", "_", "id">>] = <<"m", "3">>
    /\ ansRec[<<"s", "1", "_", "s", "2", "_", "s", "4", "_", "id">>] = <<"m", "4">>

\* an answer that is not a container carries a child: no column for the child
C27_WitnessChildOfNonContainer ==
    /\ ansDone
    /\ ans.typeAnswer = "containerAnswer"
    /\ Len(ans.cAnswer) = 1
    /\ ans.cAnswer[1].typeAnswer = "open"
    /\ Len(ans.cAnswer[1].cAnswer) = 1
    /\ \A n \in DOMAIN ansRec : ansRec[n] # <<"m", "3">>
    /\ \E n \in DOMAIN ansRec : ansRec[n] = <<"m", "2">>

----------------------------------------------------------------------------
(* merge_and_push: the upload follows the fetch *)

\* a getSchedule reply with status 1
FetchedSchedule(r) == r.kind = "json" /\ r.status = 1

\* C28: merge_and_push sends the setSchedule upload only after its getSchedule
\* fetch has returned status 1: when the user code is missing, the private key
\* file is absent, or the fetch fails or returns another status, no upload
\* request is ever sent.
C28_UploadOnlyAfterFetch ==
    \* in merge_and_push itself every request sent is the getSchedule fetch,
    \* and the call ends there exactly when a check or the fetch failed
    /\ exec = "merge_and_push"
        => /\ mp # "push"
           /\ requests = Len(fetched) /\ Len(fetched) <= 1
           /\ mp = "none" => fetched = <<>>
           /\ pc = "done"
                => /\ outcome.kind = "raise"
                   /\ \A i \in 1 .. Len(fetched) : ~FetchedSchedule(fetched[i])
    \* _push_schedule runs for it only after a fetch that returned status 1
    /\ mp = "push"
        => /\ exec = "_push_schedule"
           /\ Len(fetched) = 1 /\ FetchedSchedule(fetched[1])

\* the fetch is answered with status -1: the call ends after that one request
C28_Witness ==
    /\ exec = "merge_and_push" /\ pc = "done"
    /\ Len(fetched) = 1 /\ Transient(fetched[1])
    /\ requests = 1
    /\ outcome.kind = "raise"

\* the fetch returned status 1 and the upload was sent and accepted
C28_WitnessUploaded ==
    /\ mp = "push" /\ pc = "done"
    /\ Len(fetched) = 1 /\ FetchedSchedule(fetched[1])
    /\ requests >= 1
    /\ outcome.kind = "return"

\* the private key file is absent: no request at all
C28_WitnessNoKey ==
    /\ exec = "merge_and_push" /\ pc = "done"
    /\ outcome.exc = "FileNotFoundError"
    /\ requests = 0 /\ fetched = <<>>

----------------------------------------------------------------------------
(* How an executor call ends *)

\* the logical attempts the call may make: max(budget, 1)
AttemptLimit == IF budget < 1 THEN 1 ELSE budget

\* C29: for every integer attempt budget, 0 and negative values included, and
\* every sequence of replies, an executor call ends after at most
\* max(budget, 1) logical attempts, and it ends either by returning a success
\* reply or by raising a failure, never by returning without a result.
C29_EndsWithResultOrFailure ==
    /\ Len(replies) <= AttemptLimit
    /\ pc = "done" => outcome.kind \in {"return", "raise"}

\* what holds: the attempts are bounded as stated, and a call returns without
\* a result exactly when its loop never ran (a budget below 1) or, in the
\* script's set_interactions, when the reply was not JSON
ReturnsNothingOnlyWithoutAttempt ==
    /\ Len(replies) <= AttemptLimit
    /\ (pc = "done" /\ outcome.kind \notin {"return", "raise"})
        => \/ budget < 1 /\ requests = 0 /\ exec # "set_interactions"
           \/ exec = "legacy_set_interactions" /\ Last.kind = "nonjson"

====
